---- MODULE Spec2Model ----
(***************************************************************************)
(* Quota accounting and persistence engine of src/lib/quota-store.js:      *)
(* per-user usage counters kept in a durable object store (S3) with an     *)
(* automatic, one-way fallback to an in-process map.                       *)
(*                                                                         *)
(* Every request is a process slot.  A step of the model is the piece of   *)
(* JavaScript that runs between two suspension points: the start of a     *)
(* call up to its first backend request, or the arrival of a backend      *)
(* response up to the next request (or the return).                        *)
(*                                                                         *)
(* The token service of src/api/admin/quotas.js (signToken, verifyToken)   *)
(* is followed by a specification of its own, SpecAuth: its functions are  *)
(* synchronous, one call is one step.                                      *)
(***************************************************************************)
EXTENDS Integers, Sequences, FiniteSets, TLC

\* ------------------------------------------------------------------ bounds

\* Number of requests that can be in flight at the same time.
NumProcs == 2
\* The clock (new Date()) runs over 0..MaxTime; it can advance between two
\* readings of one step.
MaxTime == 1
\* Largest counter value the model lets an unlimited category reach.
MaxUsed == 2
\* Number of keys one ListObjectsV2 page carries.
PageSize == 1
\* Number of calls the model follows the process for.
MaxCalls == 2

\* The calls of the default-limit run: one more than the default cap.
ScenarioCalls == 171

Procs == 1..NumProcs

Min(a, b) == IF a <= b THEN a ELSE b
Max(a, b) == IF a >= b THEN a ELSE b

\* ------------------------------------------------------- JavaScript values

\* A JavaScript value where a number is expected.  k = "num": the number
\* twice/2 (so halves are the fractions of the model); k = "nan": anything
\* Number() turns into NaN (undefined, a non-numeric string, an object);
\* k = "inf": Infinity; k = "absent": the argument or variable is not given;
\* k = "unlimited": the string 'unlimited'.
Num(n) == [k |-> "num", twice |-> 2 * n]
Half(n) == [k |-> "num", twice |-> 2 * n + 1]
NaN == [k |-> "nan", twice |-> 0]
PosInf == [k |-> "inf", twice |-> 0]
Absent == [k |-> "absent", twice |-> 0]
Unlimited == [k |-> "unlimited", twice |-> 0]

\* Number.isFinite(Number(v))
IsFiniteNum(v) == v.k = "num"

\* Math.floor of a finite number
Floor(v) == IF v.twice >= 0 THEN v.twice \div 2 ELSE -((1 - v.twice) \div 2)

\* Infinity as a limit (limits are integers otherwise).
Infinity == -1

\* null as a timestamp (timestamps are clock values otherwise).
Null == -1

\* toCount: a stored counter value as a count.
ToCountNoClamp(value) == IF ~IsFiniteNum(value) THEN 0 ELSE Floor(value)

toCount(value) ==
  IF ~IsFiniteNum(value) \/ value.twice < 0 THEN 0 ELSE Floor(value)

\* --------------------------------------------------------------- identity

Allowed == {"a", "b", "c", "d", "g", "i", "m", "n", "o", "2", ".", "_", "-"}
Whitespace == {" "}

RECURSIVE TrimStart(_)
TrimStart(s) ==
  IF s # <<>> /\ Head(s) \in Whitespace THEN TrimStart(Tail(s)) ELSE s

RECURSIVE TrimEnd(_)
TrimEnd(s) ==
  IF s # <<>> /\ s[Len(s)] \in Whitespace
  THEN TrimEnd(SubSeq(s, 1, Len(s) - 1))
  ELSE s

\* A sanitizer that trims and replaces nothing.
TrimOnly(segment) == TrimEnd(TrimStart(segment))

\* String(segment || '').trim().replace(/[^A-Za-z0-9._-]/g, '_')
sanitizeSegment(segment) ==
  LET t == TrimEnd(TrimStart(segment))
  IN  [i \in 1..Len(t) |-> IF t[i] \in Allowed THEN t[i] ELSE "_"]

sanitizeUserId(userId) == sanitizeSegment(userId)

\* The raw ids requests carry: a user whose id needs trimming, a user whose
\* id needs replacing, and an id that sanitizes to nothing.
RawIds == {<<" ", "a">>, <<"/">>, <<" ">>}
SafeIds == {sanitizeUserId(r) : r \in RawIds} \ {<<>>}

\* ------------------------------------------------------------------ tokens

\* Half-seconds the token clock (Date.now()) is followed for.
MaxTicks == 4
\* Longest raw user id a token is asked for.
MaxIdLen == 3
\* Number of signToken calls the model follows the token service for.
MaxTokens == 1

\* expiresInSeconds when the caller gives none.
DefaultTtl == 3600

\* Date.now() when the process starts, in half-seconds: a time after 1970,
\* so that no token of the model expires at second 0.
Epoch == 4

\* The characters of raw user ids: a letter, an allowed punctuation mark,
\* a blank and a character outside the allowed class.
IdChars == {"a", "-", " ", "/"}
UserIds == UNION {[1..n -> IdChars] : n \in 0..MaxIdLen}

\* What callers pass as expiresInSeconds: nothing, 0, a second, half a
\* second, a negative number, a non-numeric string, Infinity.
Ttls == {Absent, Num(0), Num(1), Half(0), Num(-1), NaN, PosInf}

\* AUTH_SECRET; "" when none of the environment variables is set.
Secrets == {"s", ""}

\* null in a parsed JSON text.
JsonNull == [k |-> "null", twice |-> 0]

\* `v` in `v || fallback` and `v && ...`: undefined, null and 0 are falsy; a
\* non-numeric string (k = "nan" here) and Infinity are truthy.
TruthyNum(v) ==
  \/ v.k \in {"nan", "inf", "unlimited"}
  \/ v.k = "num" /\ v.twice # 0

\* Number(v)
Number(v) ==
  IF v.k = "num" THEN v
  ELSE IF v.k = "inf" THEN PosInf
  ELSE IF v.k = "null" THEN Num(0)
  ELSE NaN

\* seconds + v, seconds an integer
Plus(seconds, v) ==
  IF v.k = "num" THEN [k |-> "num", twice |-> 2 * seconds + v.twice] ELSE v

\* Math.floor(Date.now() / 1000) at a reading of the clock
Seconds(clock) == clock \div 2

\* A payload whose subject is the sanitized id.
PayloadOfSafeId(userId, expiresInSeconds, clock) ==
  [sub |-> sanitizeUserId(userId),
   safeSub |-> sanitizeUserId(userId),
   iat |-> Seconds(clock),
   exp |-> Plus(Seconds(clock),
                Number(IF TruthyNum(expiresInSeconds) THEN expiresInSeconds
                       ELSE Num(DefaultTtl)))]

\* The payload signToken builds.
Payload(userId, expiresInSeconds, clock) ==
  [sub |-> userId,
   safeSub |-> sanitizeUserId(userId),
   iat |-> Seconds(clock),
   exp |-> Plus(Seconds(clock),
                Number(IF TruthyNum(expiresInSeconds) THEN expiresInSeconds
                       ELSE Num(DefaultTtl)))]

NoPayload == [sub |-> <<>>, safeSub |-> <<>>, iat |-> 0, exp |-> JsonNull]

\* base64urlEncode(obj): the base64url text of JSON.stringify(obj), as the
\* value the text parses to; JSON writes NaN and Infinity as null.
base64urlEncode(obj) ==
  [b64 |-> [obj EXCEPT !.exp = IF IsFiniteNum(@) THEN @ ELSE JsonNull]]

\* base64urlDecode(str)
base64urlDecode(str) == str.b64

\* { alg: 'HS256', typ: 'JWT' } has no expiry; the field is carried as null
\* so that every segment has one shape.
Header == [NoPayload EXCEPT !.sub = <<"HS256">>, !.safeSub = <<"JWT">>]

\* crypto.createHmac('sha256', key).update(data).digest('base64url'): a
\* text that determines key and data.  flip = TRUE: such a text with one
\* of its bytes changed, which is the MAC of nothing.
createHmac(key, data) == [key |-> key, data |-> data, flip |-> FALSE]

\* A comparison of the lengths only: every MAC has the same length.
EqualLength(a, b) == TRUE

\* timingSafeEqual(a, b): equal lengths and equal bytes
timingSafeEqual(a, b) == a = b

\* A token string.  kind "jwt": three segments; "none": no token (empty or
\* undefined); "malformed": a string that does not split into three.
Jwt(headerPart, payloadPart, signature) ==
  [kind |-> "jwt", header |-> headerPart, payload |-> payloadPart,
   sig |-> signature]

NoToken ==
  [kind |-> "none", header |-> base64urlEncode(NoPayload),
   payload |-> base64urlEncode(NoPayload),
   sig |-> createHmac("", <<>>)]

\* The token signToken(userId, expiresInSeconds) returns in a process whose
\* secret is `secret`, at a reading `clock` of Date.now().
Issue(secret, userId, expiresInSeconds, clock) ==
  LET headerPart == base64urlEncode(Header)
      payloadPart == base64urlEncode(Payload(userId, expiresInSeconds, clock))
  IN  Jwt(headerPart, payloadPart,
          createHmac(secret, <<headerPart, payloadPart>>))

\* What a call of the token service answers.
Answer(status, payload) == [status |-> status, payload |-> payload]

\* verifyToken(token) of a process whose secret is `secret`, at a reading
\* `clock` of Date.now() in half-seconds.
verifyTokenAt(secret, token, clock) ==
  IF secret = "" THEN Answer("ConfigError", NoPayload)
  ELSE IF token.kind = "none" THEN Answer("TokenMissing", NoPayload)
  ELSE IF token.kind # "jwt" THEN Answer("InvalidToken", NoPayload)
  ELSE IF ~timingSafeEqual(token.sig,
                           createHmac(secret, <<token.header, token.payload>>))
  THEN Answer("InvalidSignature", NoPayload)
  ELSE LET payload == base64urlDecode(token.payload)
       IN  IF TruthyNum(payload.exp) /\ payload.exp.twice < clock
           THEN Answer("TokenExpired", NoPayload)
           ELSE Answer("ok", payload)

\* The token service before any call: no token issued, none verified.
NoSigned ==
  [status |-> "none", userId |-> <<>>, ttl |-> Absent, at |-> 0,
   token |-> NoToken, payload |-> NoPayload]

NoVerdict ==
  [status |-> "none", at |-> 0, token |-> NoToken, payload |-> NoPayload]

NoAuth ==
  [secret |-> "", clock |-> Epoch, issued |-> 0, token |-> NoToken,
   signed |-> NoSigned, verdict |-> NoVerdict]

\* --------------------------------------------------------------- limits

Types == {"listening", "translation", "pronunciation"}

DefaultSectionLimit == 10
DefaultSectionCount == 17

\* parseLimitInput(value, fallback) with allowZeroAsInfinity = true
parseLimitInput(value, fallback) ==
  IF value.k = "absent" THEN fallback
  ELSE IF value.k = "unlimited" THEN Infinity
  ELSE IF ~IsFiniteNum(value) THEN fallback
  ELSE IF value.twice < 0 THEN fallback
  ELSE IF value.twice = 0 THEN Infinity
  ELSE Floor(value)

\* parsePositiveInt(value, fallback)
parsePositiveInt(value, fallback) ==
  IF ~IsFiniteNum(value) \/ value.twice <= 0 THEN fallback ELSE Floor(value)

\* SECTION_COUNT from the environment e (absent: 17)
SECTION_COUNT(e) ==
  parsePositiveInt(IF e.sectionCount.k = "absent"
                   THEN Num(DefaultSectionCount) ELSE e.sectionCount,
                   DefaultSectionCount)

\* Per-section limits that take a cap the environment does not set for
\* unlimited.
AbsentIsUnlimited(e) ==
  [t \in Types |->
     IF e.sectionLimit[t].k = "absent" THEN Infinity
     ELSE parseLimitInput(e.sectionLimit[t], DefaultSectionLimit)]

\* PER_SECTION_LIMITS from the environment e (absent: 10)
PER_SECTION_LIMITS(e) ==
  [t \in Types |->
     parseLimitInput(IF e.sectionLimit[t].k = "absent"
                     THEN Num(DefaultSectionLimit) ELSE e.sectionLimit[t],
                     DefaultSectionLimit)]

\* A cap that leaves out the section count.
PerSectionOnly(perSectionLimit, sectionCount) ==
  IF perSectionLimit = Infinity \/ perSectionLimit <= 0 THEN Infinity
  ELSE perSectionLimit

\* computeGlobalLimit(perSectionLimit), SECTION_COUNT being sectionCount
computeGlobalLimit(perSectionLimit, sectionCount) ==
  IF perSectionLimit = Infinity \/ perSectionLimit <= 0 THEN Infinity
  ELSE perSectionLimit * Max(1, sectionCount)

DEFAULT_LIMITS(e) ==
  [t \in Types |-> computeGlobalLimit(PER_SECTION_LIMITS(e)[t], SECTION_COUNT(e))]

\* resolveLimitForType(type) with limits = DEFAULT_LIMITS
resolveLimitForType(type, e) ==
  LET raw == DEFAULT_LIMITS(e)[type]
  IN  IF raw = Infinity \/ raw <= 0 THEN Infinity ELSE raw

\* ---------------------------------------------------------------- records

\* `${type}Used`
field(type) ==
  CASE type = "listening" -> "listeningUsed"
    [] type = "translation" -> "translationUsed"
    [] OTHER -> "pronunciationUsed"

Fields == {field(t) : t \in Types}

\* No object: an empty slot of the map, an unset local.  ref is the identity
\* of an in-process object (0: an object nothing else refers to); two
\* holders with the same ref > 0 hold the same object.
NoEntry ==
  [id |-> <<>>, safeId |-> <<>>, listeningUsed |-> NaN, translationUsed |-> NaN,
   pronunciationUsed |-> NaN, resetAt |-> Null, updatedAt |-> Null, ref |-> -1]

createEntry(userId, safeId, t) ==
  [id |-> userId, safeId |-> safeId, listeningUsed |-> Num(0),
   translationUsed |-> Num(0), pronunciationUsed |-> Num(0),
   resetAt |-> Null, updatedAt |-> t, ref |-> 0]

\* entry.id || userId: the empty string is falsy
OrId(id, userId) == IF id # <<>> THEN id ELSE userId

\* A normalisation that forgets the time of the reset.
normalizeEntryNoReset(entry, userId, safeId, t) ==
  IF entry.kind # "obj" THEN createEntry(userId, safeId, t)
  ELSE [id |-> OrId(entry.id, userId), safeId |-> safeId,
        listeningUsed |-> Num(toCount(entry.listeningUsed)),
        translationUsed |-> Num(toCount(entry.translationUsed)),
        pronunciationUsed |-> Num(toCount(entry.pronunciationUsed)),
        resetAt |-> Null, updatedAt |-> entry.updatedAt, ref |-> 0]

\* normalizeEntry(entry, userId, safeId) of a JavaScript value: a new object.
\* kind is typeof-like: "obj" an object, anything else is not an object.
normalizeEntry(entry, userId, safeId, t) ==
  IF entry.kind # "obj" THEN createEntry(userId, safeId, t)
  ELSE [id |-> OrId(entry.id, userId), safeId |-> safeId,
        listeningUsed |-> Num(toCount(entry.listeningUsed)),
        translationUsed |-> Num(toCount(entry.translationUsed)),
        pronunciationUsed |-> Num(toCount(entry.pronunciationUsed)),
        resetAt |-> entry.resetAt, updatedAt |-> entry.updatedAt, ref |-> 0]

\* An in-process entry as the JavaScript value normalizeEntry looks at.
AsValue(entry) ==
  [kind |-> IF entry = NoEntry THEN "undefined" ELSE "obj",
   id |-> entry.id, listeningUsed |-> entry.listeningUsed,
   translationUsed |-> entry.translationUsed,
   pronunciationUsed |-> entry.pronunciationUsed,
   resetAt |-> entry.resetAt, updatedAt |-> entry.updatedAt]

\* What a key of the bucket holds.  kind "none": no object under the key;
\* "obj": the JSON text of an object; "falsy": JSON text of null, 0, false
\* or ""; "nonobj": JSON text of a non-zero number, a non-empty string or
\* true; "garbage": text JSON.parse rejects.
NoObject ==
  [kind |-> "none", id |-> <<>>, listeningUsed |-> NaN, translationUsed |-> NaN,
   pronunciationUsed |-> NaN, resetAt |-> Null, updatedAt |-> Null]

Text(kind) == [NoObject EXCEPT !.kind = kind]

\* A serialisation that loses the numbers it writes.
JsonNumberLost(v) == Num(0)

\* A number through JSON.stringify and JSON.parse: NaN and Infinity are
\* written as null, and Number(null) is 0.
JsonNumber(v) == IF IsFiniteNum(v) THEN v ELSE Num(0)

\* A serialisation that leaves out the time of the reset.
stringifyNoResetAt(entry) ==
  [kind |-> "obj", id |-> entry.id,
   listeningUsed |-> JsonNumber(entry.listeningUsed),
   translationUsed |-> JsonNumber(entry.translationUsed),
   pronunciationUsed |-> JsonNumber(entry.pronunciationUsed),
   resetAt |-> Null, updatedAt |-> entry.updatedAt]

\* JSON.stringify(entry, null, 2), as the object the text parses back to.
stringify(entry) ==
  [kind |-> "obj", id |-> entry.id,
   listeningUsed |-> JsonNumber(entry.listeningUsed),
   translationUsed |-> JsonNumber(entry.translationUsed),
   pronunciationUsed |-> JsonNumber(entry.pronunciationUsed),
   resetAt |-> entry.resetAt, updatedAt |-> entry.updatedAt]

\* `existing` in `if (existing)`: a falsy parse result reads as no record.
Truthy(obj) == obj.kind \in {"obj", "nonobj"}

\* isUsingMemoryStore() ? 'memory' : 's3'
storage(flag) == IF flag THEN "memory" ELSE "s3"

\* buildKey(safeId): `${USAGE_S3_PREFIX}/${safeId}.json`, as a character
\* sequence whose prefix and suffix are one symbol each.
buildKey(safeId) == <<"quota/">> \o safeId \o <<".json">>

\* key.replace(`${USAGE_S3_PREFIX}/`, '').replace(/\.json$/, '')
keyToSafeId(key) ==
  LET k1 == IF key # <<>> /\ Head(key) = "quota/" THEN Tail(key) ELSE key
  IN  IF k1 # <<>> /\ k1[Len(k1)] = ".json"
      THEN SubSeq(k1, 1, Len(k1) - 1) ELSE k1

\* The safe ids in the order the bucket lists their keys ('_' sorts before 'a').
KeyOrder == <<<<"_">>, <<"a">>>>
Keys == {buildKey(x) : x \in SafeIds}

\* ------------------------------------------------------ users and admins

AdminId == <<"a", "d", "m", "i", "n">>
BobId == <<"b", "o", "b">>

\* What separates the entries of ADMIN_USERS: /[\s,]+/
Separators == Whitespace \cup {","}

\* ADMIN_USERS_ENV.split(/[\s,]+/).map(trim).filter(Boolean): the entries
\* of the text s, cur being the entry that is being read.
RECURSIVE Entries(_, _)
Entries(s, cur) ==
  IF s = <<>> THEN (IF cur = <<>> THEN {} ELSE {cur})
  ELSE IF Head(s) \in Separators
  THEN (IF cur = <<>> THEN {} ELSE {cur}) \cup Entries(Tail(s), <<>>)
  ELSE Entries(Tail(s), Append(cur, Head(s)))

\* An admin set that stays empty when none is configured.
parseAdminsNoDefault(adminUsersEnv) ==
  {sanitizeUserId(entry) : entry \in Entries(adminUsersEnv, <<>>)}

\* parseAdmins(): the sanitized entries of ADMIN_USERS, and 'admin' alone
\* when there is none.
parseAdmins(adminUsersEnv) ==
  LET set == {sanitizeUserId(entry) : entry \in Entries(adminUsersEnv, <<>>)}
  IN  IF set = {} THEN {sanitizeUserId(AdminId)} ELSE set

\* A check that takes every user for an admin.
isAnyUser(adminUsersEnv, userId) == userId # <<>>

\* isAdminUser(userId)
isAdminUser(adminUsersEnv, userId) ==
  /\ userId # <<>>
  /\ sanitizeUserId(userId) \in parseAdmins(adminUsersEnv)

\* The user of a request; none when it is not authenticated.
NoUser == [id |-> <<>>, safeId |-> <<>>]

\* PASSWORD_OPTIONAL_PREFIX
OptionalPrefix == <<"a", "c", "g", "2", "_">>

\* A user id with the prefix, and a user of no configuration.
GuestId == OptionalPrefix \o <<"b">>
CarolId == <<"c">>

\* A stored credential: what AUTH_USERS holds for a safe id.  scheme
\* "bcrypt": a bcrypt hash of the password `of`; "plain": the text
\* 'plain:' followed by `of`; "raw": the text `of` itself.
Credential(safeId, scheme, of) == [safeId |-> safeId, scheme |-> scheme, of |-> of]

\* isPasswordOptionalUser(userId)
isPasswordOptionalUser(userId) ==
  /\ Len(userId) >= Len(OptionalPrefix)
  /\ SubSeq(userId, 1, Len(OptionalPrefix)) = OptionalPrefix

\* getUserHash(userId): the credentials of the map parseUsers built under
\* the sanitized id (none: the function returns null).
getUserHash(users, userId) ==
  {c \in users : c.safeId = sanitizeUserId(userId)}

\* verifyUserPassword(userId, password): bcrypt.compare for a bcrypt hash,
\* equality with the text after 'plain:' or with the stored text.
verifyUserPassword(users, userId, password) ==
  /\ password # ""
  /\ \E stored \in getUserHash(users, userId) : stored.of = password

\* A login that asks no user for a password.
authenticateAnyone(users, userId, password) ==
  IF userId = <<>> THEN NoUser
  ELSE [id |-> userId, safeId |-> sanitizeUserId(userId)]

\* authenticateUser(userId, password): the user, or NoUser for null.
authenticateUser(users, userId, password) ==
  IF userId = <<>> THEN NoUser
  ELSE IF isPasswordOptionalUser(userId)
  THEN [id |-> userId, safeId |-> sanitizeUserId(userId)]
  ELSE IF ~verifyUserPassword(users, userId, password) THEN NoUser
  ELSE [id |-> userId, safeId |-> sanitizeUserId(userId)]

\* A response: status 0 when none was sent.  error: the error text of the
\* body; item: the record of the body; used, limit, remaining: per type, what
\* the body reports; exceeded: limitExceeded of the body.
NoExceeded == [type |-> "none", limit |-> 0, used |-> 0]

NoResponse ==
  [status |-> 0, error |-> "", ok |-> FALSE, snapshot |-> FALSE,
   item |-> NoEntry, items |-> <<>>, exceeded |-> NoExceeded,
   token |-> NoToken, user |-> NoUser]

Failure(status, error) ==
  [NoResponse EXCEPT !.status = status, !.error = error]

\* A check of the token that tells the caller why it failed.
requireAuthTelling(secret, token, clock) ==
  LET answer == verifyTokenAt(secret, token, clock)
  IN  IF answer.status # "ok"
      THEN [user |-> NoUser, res |-> Failure(401, answer.status)]
      ELSE [user |-> [id |-> answer.payload.sub,
                      safeId |-> sanitizeUserId(answer.payload.safeSub)],
            res |-> NoResponse]

\* requireAuth(req, res): the user of the token the request carries, or the
\* response sent when there is none.
requireAuth(secret, token, clock) ==
  IF token.kind = "none"
  THEN [user |-> NoUser, res |-> Failure(401, "Unauthorized")]
  ELSE LET answer == verifyTokenAt(secret, token, clock)
       IN  IF answer.status # "ok"
           THEN [user |-> NoUser, res |-> Failure(401, "Unauthorized")]
           ELSE [user |->
                   [id |-> answer.payload.sub,
                    safeId |-> sanitizeUserId(
                                 IF answer.payload.safeSub # <<>>
                                 THEN answer.payload.safeSub
                                 ELSE answer.payload.sub)],
                 res |-> NoResponse]

\* requireAdmin(req, res)
requireAdmin(adminUsersEnv, secret, token, clock) ==
  LET auth1 == requireAuth(secret, token, clock)
  IN  IF auth1.res.status # 0 THEN auth1
      ELSE IF /\ ~isAdminUser(adminUsersEnv, auth1.user.id)
              /\ ~isAdminUser(adminUsersEnv, auth1.user.safeId)
      THEN [user |-> NoUser, res |-> Failure(403, "Forbidden")]
      ELSE auth1

\* A request.  endpoint: "usage", "admin" or "auth"; token: what
\* extractToken finds (NoToken: no Authorization header and no cookie);
\* action, userId, type, amount, password: the fields of the body ("absent",
\* <<>>, Absent, "": not given).
NoRequest ==
  [endpoint |-> "none", method |-> "none", token |-> NoToken,
   action |-> "absent", userId |-> <<>>, type |-> "absent", amount |-> Absent,
   password |-> ""]

\* The endpoints before the first request.  admins: ADMIN_USERS; stage:
\* "idle", "arrived" (the handler has not run), "caught" (the usage handler
\* has caught a quota error), "replied".
NoWeb ==
  [admins |-> <<>>, users |-> {}, stage |-> "idle", req |-> NoRequest,
   res |-> NoResponse]

\* No limits argument (undefined: the default parameter applies), and no
\* call of computeRemaining.
NoLimits == [t \in {"listening", "translation", "pronunciation"} |-> Absent]
NoCalc == [entry |-> NoEntry, limits |-> NoLimits, done |-> FALSE,
           remaining |-> <<>>]

\* ------------------------------------------------------------------ state

VARIABLES
  env,                \* process.env: sectionLimit per type, sectionCount
  scope,              \* what the callers do: slots in use, ids, types, amounts
  now,                \* the clock new Date() reads
  useMemoryStore,     \* TRUE: the in-process map is the backend
  memoryNoticeLogged, \* the fallback warning has been printed
  memoryStore,        \* safe id -> entry of the in-process map, or NoEntry
  s3,                 \* key -> what the bucket holds under it
  procs,              \* the requests in flight: call, position, locals, result
  hist,               \* per request: what has happened during its call
  calls,              \* the number of calls started so far
  auth,               \* the token service: secret, clock, token in hand
  web,                \* the endpoints: configuration, request, response
  calc                \* a call of computeRemaining: arguments and result

vars ==
  <<env, scope, now, useMemoryStore, memoryNoticeLogged, memoryStore, s3, procs,
    hist, calls, auth, web, calc>>

\* What no step of the store changes.
fixed == <<env, scope, auth, web, calc>>

\* What the token service does not touch: the whole quota store.
store ==
  <<env, scope, now, useMemoryStore, memoryNoticeLogged, memoryStore, s3,
    procs, hist, calls>>

NoResult ==
  [status |-> "none", value |-> NoEntry, items |-> <<>>, type |-> "none",
   limit |-> 0, used |-> 0]

\* A call that returned `value`.
Ret(value) == [NoResult EXCEPT !.status = "ok", !.value = [value EXCEPT !.ref = 0]]

\* A call that threw.
Thrown(what) == [NoResult EXCEPT !.status = what]

\* An error that reports the cap where the usage belongs.
QuotaExceededErrorAtCap(type, limit, used) ==
  [status |-> "QuotaExceeded", value |-> NoEntry, items |-> <<>>, type |-> type,
   limit |-> limit, used |-> limit]

\* new QuotaExceededError(type, limit, used)
QuotaExceededError(type, limit, used) ==
  [NoResult EXCEPT !.status = "QuotaExceeded", !.type = type, !.limit = limit,
                   !.used = used]

IdleProc ==
  [op |-> "idle", pc |-> "idle", userId |-> <<>>, safeId |-> <<>>,
   type |-> "none", incrementBy |-> 0, entry |-> NoEntry, keys |-> <<>>,
   token |-> 0, results |-> <<>>, result |-> NoResult]

\* What has happened during a call.  mem: the backend mode at its start;
\* pre, post: what the active backend held for its safe id when it started
\* and when it ended; overlap: another call on the same safe id was in
\* flight during this one; fault: a backend request of this call failed, or
\* returned text that is not JSON; denied: a durable request of this call
\* was answered AccessDenied; failed: a durable request of this call failed
\* with an error that is neither not-found nor AccessDenied; reqS3: this
\* call issued a durable request;
\* wrote: this call issued a write to a backend (a PutObject, a DeleteObject,
\* a change of the map); after: the safe id of the deleteUsage that returned
\* to the caller of this slot just before this call, NoCall if the call
\* before was none.
NoCall == <<>>

NoHist ==
  [mem |-> FALSE, pre |-> NoObject, post |-> NoObject, overlap |-> FALSE,
   fault |-> FALSE, denied |-> FALSE, failed |-> FALSE, reqS3 |-> FALSE,
   wrote |-> FALSE, after |-> NoCall]

Active(q) == procs[q].pc \notin {"idle", "done"}

\* The request P as it returns or throws r.
Finish(P, r) ==
  [IdleProc EXCEPT !.op = P.op, !.pc = "done", !.userId = P.userId,
                   !.safeId = P.safeId, !.type = P.type,
                   !.incrementBy = P.incrementBy, !.result = r]

\* A fresh object identity for the object that request p stores under x in
\* the map mem: the least one that no other slot and no other request holds.
UsedRefs(mem, p, x) ==
  {mem[y].ref : y \in SafeIds \ {x}} \cup {procs[q].entry.ref : q \in Procs \ {p}}
NewRef(mem, p, x) ==
  CHOOSE r \in 1..(NumProcs + Cardinality(SafeIds)) :
    /\ r \notin UsedRefs(mem, p, x)
    /\ \A r2 \in 1..(r - 1) : r2 \in UsedRefs(mem, p, x)

\* What the backend of mode `mode` holds for safe id x, as the JavaScript
\* value a reader gets (kind "none": nothing).
Stored(mode, mem, bucket, x) ==
  IF x = <<>> THEN NoObject
  ELSE IF mode
  THEN IF mem[x] = NoEntry THEN NoObject ELSE AsValue(mem[x])
  ELSE bucket[buildKey(x)]

\* The environments of the model: a finite cap of 1 x 2 on listening and
\* translation, and pronunciation unlimited.
Envs ==
  {[sectionCount |-> Num(2),
    sectionLimit |-> [t \in Types |->
                        IF t = "pronunciation" THEN Num(0) ELSE Num(1)]]}

\* What a key of the bucket can hold: nothing, a record the program wrote,
\* a hand-edited record, and three texts that are not a record.
Written(x) ==
  stringify([createEntry(x, x, 0) EXCEPT !.listeningUsed = Num(1),
                                        !.pronunciationUsed = Num(1)])
HandEdited ==
  [NoObject EXCEPT !.kind = "obj", !.listeningUsed = Num(-1),
                   !.translationUsed = Half(1), !.pronunciationUsed = NaN]
InitObjects(x) ==
  IF x = KeyOrder[Len(KeyOrder)]
  THEN {NoObject, Written(x), HandEdited, Text("falsy"), Text("nonobj"),
        Text("garbage")}
  ELSE {NoObject, Written(x)}

\* What a slot of the map can hold: nothing, or a record saveEntry stored.
Saved(x) ==
  [createEntry(x, x, 0) EXCEPT !.listeningUsed = Num(2),
                               !.translationUsed = Num(1), !.resetAt = 0]

\* The process is observed from a state in which no request is in flight:
\* either backend mode, the bucket holding any of the objects above, the map
\* any of the entries above.
Observed ==
  /\ env \in Envs
  /\ now = 0
  /\ useMemoryStore \in BOOLEAN
  /\ memoryNoticeLogged = FALSE
  /\ IF useMemoryStore
     THEN /\ s3 = [k \in Keys |-> NoObject]
          /\ \E present \in SUBSET SafeIds :
               memoryStore =
                 [x \in SafeIds |->
                    IF x \in present
                    THEN [Saved(x) EXCEPT
                            !.ref = IF x = KeyOrder[1] \/ present = {x}
                                    THEN 1 ELSE 2]
                    ELSE NoEntry]
     ELSE /\ s3 \in {g \in [Keys -> UNION {InitObjects(x) : x \in SafeIds}] :
                       \A x \in SafeIds : g[buildKey(x)] \in InitObjects(x)}
          /\ memoryStore = [x \in SafeIds |-> NoEntry]
  /\ procs = [p \in Procs |-> IdleProc]
  /\ hist = [p \in Procs |-> NoHist]
  /\ calls = 0

\* The amounts a caller passes: none, 1, 3, 0.5, 1.5, 0, -1, a non-number
\* and Infinity.
Amounts ==
  {Absent, Num(1), Num(3), Half(0), Half(1), Num(0), Num(-1), NaN, PosInf}

\* The types a caller passes: a capped category, the unlimited one and
\* another word.
TypeArgs == {"listening", "pronunciation", "grammar"}

\* The requests of a run: one at a time with every id, type and amount of
\* the model, or two that interleave at their awaits, on one user and with
\* one type and amount.
Sequential ==
  [slots |-> 1, calls |-> MaxCalls, ids |-> RawIds, types |-> TypeArgs,
   amounts |-> Amounts]
Concurrent ==
  [slots |-> 2, calls |-> 2, ids |-> {<<" ", "a">>},
   types |-> {"listening"}, amounts |-> {Num(1)}]

Init ==
  /\ Observed
  /\ auth = NoAuth
  /\ web = NoWeb
  /\ calc = NoCalc
  /\ scope \in {Sequential, Concurrent}

\* ---------------------------------------------------------------- actions

\* The calls on safe id x that are in flight beside request p.
Others(p, x) ==
  {q \in Procs \ {p} : Active(q) /\ procs[q].op # "list" /\ procs[q].safeId = x}

\* hist of a call on x as the call ends.
Ended(h, x) == [h EXCEPT !.post = Stored(useMemoryStore', memoryStore', s3', x)]

\* hist as request p starts a call on x with the record h.
Began(p, x, h) ==
  [q \in Procs |->
     IF q = p THEN [h EXCEPT !.overlap = Others(p, x) # {}]
     ELSE IF q \in Others(p, x) THEN [hist[q] EXCEPT !.overlap = TRUE]
     ELSE hist[q]]

\* hist of a call of request p on x as it starts.
Start(p, x) ==
  [NoHist EXCEPT !.after = hist[p].after,
                 !.mem = useMemoryStore,
                 !.pre = Stored(useMemoryStore, memoryStore, s3, x)]

\* One more call starts, in a slot the callers use.
Call(p) ==
  /\ p <= scope.slots
  /\ procs[p].pc = "idle"
  /\ calls < scope.calls
  /\ calls' = calls + 1

\* The call P of request p ends with r; base is procs as the step leaves
\* the other requests.
Done(p, base, P, r, h) ==
  /\ procs' = [base EXCEPT ![p] = Finish(P, r)]
  /\ hist' = [hist EXCEPT ![p] = Ended(h, P.safeId)]

\* A rejection that reports every invalid argument as a missing user id.
RejectedAsIdentity(p, P, what) ==
  /\ UNCHANGED <<fixed, now, useMemoryStore, memoryNoticeLogged, memoryStore, s3>>
  /\ Done(p, procs, P, Thrown("IdentityError"), Start(p, P.safeId))

\* A call that throws before it touches anything.
Rejected(p, P, what) ==
  /\ UNCHANGED <<fixed, now, useMemoryStore, memoryNoticeLogged, memoryStore, s3>>
  /\ Done(p, procs, P, Thrown(what), Start(p, P.safeId))

\* The object `mutated` as every holder of the object ref sees it.
Alias(e, ref, mutated) ==
  IF ref > 0 /\ e.ref = ref THEN [mutated EXCEPT !.ref = ref] ELSE e

\* getMemoryEntry(safeId, userId): the map after the call.
getMemoryEntry(p, safeId, userId) ==
  IF memoryStore[safeId] = NoEntry
  THEN [memoryStore EXCEPT
          ![safeId] = [createEntry(userId, safeId, now)
                         EXCEPT !.ref = NewRef(memoryStore, p, safeId)]]
  ELSE memoryStore

\* saveMemoryEntry(safeId, entry): the map mem after the call.
saveMemoryEntry(p, mem, safeId, entry) ==
  [mem EXCEPT ![safeId] = [entry EXCEPT !.ref = NewRef(mem, p, safeId)]]

\* A loadEntry that goes to the bucket whatever the backend mode.
LoadStartDurable(p, P) ==
  /\ UNCHANGED <<fixed, now, useMemoryStore, memoryNoticeLogged, s3, memoryStore>>
  /\ procs' = [procs EXCEPT ![p] = [P EXCEPT !.pc = "read"]]
  /\ hist' = Began(p, P.safeId, [Start(p, P.safeId) EXCEPT !.reqS3 = TRUE])

\* loadEntry(userId) of a get, increment or reset, up to its first
\* suspension: the map entry (created when missing), or a GetObject.
LoadStart(p, P) ==
  LET h == Start(p, P.safeId)
  IN  /\ UNCHANGED <<fixed, now, useMemoryStore, memoryNoticeLogged, s3>>
      /\ IF useMemoryStore
         THEN /\ memoryStore' = getMemoryEntry(p, P.safeId, P.userId)
              /\ procs' = [procs EXCEPT
                             ![p] = [P EXCEPT !.pc = "loaded",
                                              !.entry = memoryStore'[P.safeId]]]
              /\ hist' = Began(p, P.safeId,
                               [h EXCEPT !.wrote = memoryStore' # memoryStore])
         ELSE /\ UNCHANGED memoryStore
              /\ procs' = [procs EXCEPT ![p] = [P EXCEPT !.pc = "read"]]
              /\ hist' = Began(p, P.safeId, [h EXCEPT !.reqS3 = TRUE])

\* saveEntry(userId, entry) up to its suspension, the clock reading t.
\* useMemoryStore' is the backend mode as the step leaves it.
saveEntry(p, entry, h, t) ==
  LET P == procs[p]
      normalized ==
        [normalizeEntry(AsValue(entry), P.userId, sanitizeUserId(P.userId), t)
           EXCEPT !.updatedAt = t]
      mem1 == [x \in SafeIds |-> Alias(memoryStore[x], entry.ref, entry)]
      seen == [q \in Procs |->
                 [procs[q] EXCEPT !.entry = Alias(procs[q].entry, entry.ref, entry)]]
      h1 == [h EXCEPT !.wrote = TRUE]
  IN  IF useMemoryStore'
      THEN /\ memoryStore' = saveMemoryEntry(p, mem1, P.safeId, normalized)
           /\ Done(p, seen, P, Ret(normalized), h1)
      ELSE /\ memoryStore' = mem1
           /\ procs' = [seen EXCEPT ![p] = [P EXCEPT !.pc = "write",
                                                     !.entry = normalized]]
           /\ hist' = [hist EXCEPT ![p] = [h1 EXCEPT !.reqS3 = TRUE]]

\* What getUsage, incrementUsage and resetUsage do with the entry loadEntry
\* resolved to, up to the next suspension or the return.
AfterLoad(p, entry, h) ==
  LET P == procs[p]
      f == field(P.type)
      current == toCount(entry[f])
      limit == resolveLimitForType(P.type, env)
  IN  CASE P.op = "get" ->
             /\ UNCHANGED <<now, memoryStore>>
             /\ Done(p, procs, P,
                     Ret(normalizeEntry(AsValue(entry), P.userId,
                                        sanitizeUserId(P.userId), now)), h)
        [] P.op = "inc" ->
             IF limit # Infinity /\ current + P.incrementBy > limit
             THEN /\ UNCHANGED <<now, memoryStore>>
                  /\ Done(p, procs, P, QuotaExceededError(P.type, limit, current), h)
             ELSE \E t \in now..Min(now + 1, MaxTime) :
                    /\ now' = t
                    /\ saveEntry(p, [entry EXCEPT ![f] = Num(current + P.incrementBy),
                                                  !.updatedAt = now],
                                 h, t)
        [] OTHER ->
             \E t \in now..Min(now + 1, MaxTime) :
               /\ now' = t
               /\ saveEntry(p, [entry EXCEPT !.listeningUsed = Num(0),
                                             !.translationUsed = Num(0),
                                             !.pronunciationUsed = Num(0),
                                             !.resetAt = now, !.updatedAt = now],
                            h, t)

\* A fallback that prints no warning.
logNothing == memoryNoticeLogged' = memoryNoticeLogged

\* logMemoryFallback(reason)
logMemoryFallback == memoryNoticeLogged' = TRUE

\* An increment that is never less than 1.
AtLeastOne(amount) ==
  IF amount.k = "absent" THEN 1
  ELSE IF IsFiniteNum(amount) /\ amount.twice > 0 THEN Max(1, Floor(amount))
  ELSE 1

\* Number.isFinite(delta) && delta > 0 ? Math.floor(delta) : 1
incrementBy(amount) ==
  IF amount.k = "absent" THEN 1
  ELSE IF IsFiniteNum(amount) /\ amount.twice > 0 THEN Floor(amount) ELSE 1

\* The largest count of a type any copy of the record of x holds, and the
\* increments of it that are in flight: what bounds an unlimited counter.
Copies(x, type) ==
  {toCount(memoryStore[x][field(type)]), toCount(s3[buildKey(x)][field(type)])}
    \cup {toCount(procs[q].entry[field(type)]) :
            q \in {r \in Procs : procs[r].safeId = x}}
Highest(x, type) == CHOOSE n \in Copies(x, type) : \A m \in Copies(x, type) : m <= n
RECURSIVE InFlight(_, _, _)
InFlight(x, type, q) ==
  IF q = 0 THEN 0
  ELSE InFlight(x, type, q - 1)
         + (IF Active(q) /\ procs[q].op = "inc" /\ procs[q].safeId = x
               /\ procs[q].type = type
            THEN procs[q].incrementBy ELSE 0)
Room(x, type, n) ==
  resolveLimitForType(type, env) = Infinity
    => Highest(x, type) + InFlight(x, type, NumProcs) + n <= MaxUsed

\* getUsage(userId), up to the first suspension
getUsage(p, userId) ==
  LET P == [IdleProc EXCEPT !.op = "get", !.userId = userId,
                            !.safeId = sanitizeUserId(userId)]
  IN  /\ Call(p)
      /\ IF P.safeId = <<>>
         THEN Rejected(p, P, "IdentityError")
         ELSE LoadStart(p, P)

\* incrementUsage(userId, type, amount), up to the first suspension
incrementUsage(p, userId, type, amount) ==
  LET P == [IdleProc EXCEPT !.op = "inc", !.userId = userId,
                            !.safeId = sanitizeUserId(userId), !.type = type,
                            !.incrementBy = incrementBy(amount)]
  IN  /\ Call(p)
      /\ IF P.safeId = <<>>
         THEN Rejected(p, P, "IdentityError")
         ELSE IF type \notin {"listening", "translation", "pronunciation"}
         THEN Rejected(p, P, "UnsupportedType")
         ELSE /\ Room(P.safeId, type, P.incrementBy)
              /\ LoadStart(p, P)

\* resetUsage(userId), up to the first suspension
resetUsage(p, userId) ==
  LET P == [IdleProc EXCEPT !.op = "reset", !.userId = userId,
                            !.safeId = sanitizeUserId(userId)]
  IN  /\ Call(p)
      /\ IF P.safeId = <<>>
         THEN Rejected(p, P, "IdentityError")
         ELSE LoadStart(p, P)

\* The continuation of `await loadEntry(userId)` when the map served it.
Loaded(p) ==
  /\ procs[p].pc = "loaded"
  /\ UNCHANGED <<fixed, calls, useMemoryStore, memoryNoticeLogged, s3>>
  /\ AfterLoad(p, procs[p].entry, hist[p])

\* readEntryFromS3 inside loadEntry: the GetObject answers with the object.
\* Text that is not JSON makes JSON.parse throw; a falsy value reads as no
\* record, and loadEntry writes a fresh one.
ReadOk(p) ==
  LET P == procs[p]
      existing == s3[buildKey(P.safeId)]
  IN  /\ P.pc = "read"
      /\ existing.kind # "none"
      /\ UNCHANGED <<fixed, calls, useMemoryStore, memoryNoticeLogged, s3>>
      /\ CASE existing.kind = "garbage" ->
                /\ UNCHANGED <<now, memoryStore>>
                /\ Done(p, procs, P, Thrown("SyntaxError"),
                        [hist[p] EXCEPT !.fault = TRUE])
           [] existing.kind = "falsy" ->
                /\ UNCHANGED <<now, memoryStore>>
                /\ procs' = [procs EXCEPT
                               ![p] = [P EXCEPT !.pc = "seed",
                                                !.entry = createEntry(P.userId, P.safeId, now)]]
                /\ hist' = [hist EXCEPT ![p] = [@ EXCEPT !.wrote = TRUE]]
           [] OTHER ->
                AfterLoad(p, normalizeEntry(existing, P.userId, P.safeId, now),
                          hist[p])

\* A read that takes NoSuchKey for a failure.
ReadNoSuchKeyThrows(p) ==
  LET P == procs[p]
  IN  /\ P.pc = "read"
      /\ s3[buildKey(P.safeId)].kind = "none"
      /\ UNCHANGED <<fixed, calls, now, useMemoryStore, memoryNoticeLogged,
                     memoryStore, s3>>
      /\ Done(p, procs, P, Thrown("NoSuchKey"), hist[p])

\* The GetObject answers NoSuchKey (or 404): no record yet, loadEntry
\* writes a fresh one.
ReadNoSuchKey(p) ==
  LET P == procs[p]
  IN  /\ P.pc = "read"
      /\ s3[buildKey(P.safeId)].kind = "none"
      /\ procs' = [procs EXCEPT
                     ![p] = [P EXCEPT !.pc = "seed",
                                      !.entry = createEntry(P.userId, P.safeId, now)]]
      /\ hist' = [hist EXCEPT ![p] = [@ EXCEPT !.wrote = TRUE]]
      /\ UNCHANGED <<fixed, calls, now, useMemoryStore, memoryNoticeLogged,
                     memoryStore, s3>>

\* The GetObject answers AccessDenied: readEntryFromS3 switches to the map
\* and returns null, and loadEntry goes on to write a fresh record.
ReadAccessDenied(p) ==
  LET P == procs[p]
  IN  /\ P.pc = "read"
      /\ useMemoryStore' = TRUE
      /\ logMemoryFallback
      /\ procs' = [procs EXCEPT
                     ![p] = [P EXCEPT !.pc = "seed",
                                      !.entry = createEntry(P.userId, P.safeId, now)]]
      /\ hist' = [hist EXCEPT ![p] = [@ EXCEPT !.fault = TRUE, !.denied = TRUE,
                                               !.wrote = TRUE]]
      /\ UNCHANGED <<fixed, calls, now, memoryStore, s3>>

\* The GetObject fails in another way: loadEntry throws.
ReadError(p) ==
  LET P == procs[p]
  IN  /\ P.pc = "read"
      /\ UNCHANGED <<fixed, calls, now, useMemoryStore, memoryNoticeLogged,
                     memoryStore, s3>>
      /\ Done(p, procs, P, Thrown("StorageError"),
              [hist[p] EXCEPT !.fault = TRUE, !.failed = TRUE])

\* A loadEntry that goes on without writing the fresh record.
SeedSkipped(p) ==
  LET P == procs[p]
  IN  /\ P.pc = "seed"
      /\ UNCHANGED <<fixed, calls, useMemoryStore, memoryNoticeLogged, s3>>
      /\ AfterLoad(p, P.entry, hist[p])

\* writeEntryToS3(safeId, initial) inside loadEntry: the PutObject succeeds.
SeedOk(p) ==
  LET P == procs[p]
  IN  /\ P.pc = "seed"
      /\ s3' = [s3 EXCEPT ![buildKey(P.safeId)] = stringify(P.entry)]
      /\ UNCHANGED <<fixed, calls, useMemoryStore, memoryNoticeLogged>>
      /\ AfterLoad(p, P.entry, hist[p])

\* The PutObject of loadEntry fails, with AccessDenied or in another way:
\* nothing catches it, loadEntry throws.
SeedError(p, what) ==
  LET P == procs[p]
  IN  /\ P.pc = "seed"
      /\ UNCHANGED <<fixed, calls, now, useMemoryStore, memoryNoticeLogged,
                     memoryStore, s3>>
      /\ Done(p, procs, P, Thrown(what),
              [hist[p] EXCEPT !.fault = TRUE,
                              !.denied = @ \/ what = "AccessDenied",
                              !.failed = @ \/ what = "StorageError"])

\* A PutObject of incrementUsage that adds the increment to the counter the
\* bucket holds instead of replacing the object.
WriteAdding(p) ==
  LET P == procs[p]
      held == s3[buildKey(P.safeId)]
      added == IF P.op = "inc" /\ held.kind = "obj"
               THEN [P.entry EXCEPT
                       ![field(P.type)] =
                         Num(toCount(held[field(P.type)]) + P.incrementBy)]
               ELSE P.entry
  IN  /\ P.pc = "write"
      /\ s3' = [s3 EXCEPT ![buildKey(P.safeId)] = stringify(added)]
      /\ UNCHANGED <<fixed, calls, now, useMemoryStore, memoryNoticeLogged,
                     memoryStore>>
      /\ Done(p, procs, P, Ret(P.entry), hist[p])

\* writeEntryToS3(safeId, normalized) inside saveEntry: the PutObject succeeds.
WriteOk(p) ==
  LET P == procs[p]
  IN  /\ P.pc = "write"
      /\ s3' = [s3 EXCEPT ![buildKey(P.safeId)] = stringify(P.entry)]
      /\ UNCHANGED <<fixed, calls, now, useMemoryStore, memoryNoticeLogged,
                     memoryStore>>
      /\ Done(p, procs, P, Ret(P.entry), hist[p])

\* A denied PutObject after which saveEntry switches to the map and returns
\* the record without storing it there.
WriteDeniedUnsaved(p) ==
  LET P == procs[p]
  IN  /\ P.pc = "write"
      /\ useMemoryStore' = TRUE
      /\ logMemoryFallback
      /\ UNCHANGED <<fixed, calls, now, s3, memoryStore>>
      /\ Done(p, procs, P, Ret(P.entry),
              [hist[p] EXCEPT !.fault = TRUE, !.denied = TRUE])

\* The PutObject of saveEntry answers AccessDenied: saveEntry switches to
\* the map and stores the record there.
WriteAccessDenied(p) ==
  LET P == procs[p]
  IN  /\ P.pc = "write"
      /\ useMemoryStore' = TRUE
      /\ logMemoryFallback
      /\ memoryStore' = saveMemoryEntry(p, memoryStore, P.safeId, P.entry)
      /\ UNCHANGED <<fixed, calls, now, s3>>
      /\ Done(p, procs, P, Ret(P.entry),
              [hist[p] EXCEPT !.fault = TRUE, !.denied = TRUE])

\* The PutObject of saveEntry fails in another way: saveEntry throws.
WriteError(p) ==
  LET P == procs[p]
  IN  /\ P.pc = "write"
      /\ UNCHANGED <<fixed, calls, now, useMemoryStore, memoryNoticeLogged,
                     memoryStore, s3>>
      /\ Done(p, procs, P, Thrown("StorageError"),
              [hist[p] EXCEPT !.fault = TRUE, !.failed = TRUE])

\* deleteUsage(userId), up to the first suspension
deleteUsage(p, userId) ==
  LET P == [IdleProc EXCEPT !.op = "delete", !.userId = userId,
                            !.safeId = sanitizeUserId(userId)]
      h == Start(p, P.safeId)
  IN  /\ Call(p)
      /\ UNCHANGED <<fixed, now, useMemoryStore, memoryNoticeLogged, s3>>
      /\ IF P.safeId = <<>>
         THEN /\ UNCHANGED memoryStore
              /\ Done(p, procs, P, Ret(NoEntry), h)
         ELSE IF useMemoryStore
         THEN /\ memoryStore' = [memoryStore EXCEPT ![P.safeId] = NoEntry]
              /\ procs' = [procs EXCEPT ![p] = Finish(P, Ret(NoEntry))]
              /\ hist' = Began(p, P.safeId,
                               Ended([h EXCEPT !.wrote = TRUE], P.safeId))
         ELSE /\ UNCHANGED memoryStore
              /\ procs' = [procs EXCEPT ![p] = [P EXCEPT !.pc = "del"]]
              /\ hist' = Began(p, P.safeId,
                               [h EXCEPT !.reqS3 = TRUE, !.wrote = TRUE])

\* The DeleteObject succeeds (also when there is nothing under the key).
DeleteOk(p) ==
  LET P == procs[p]
  IN  /\ P.pc = "del"
      /\ s3' = [s3 EXCEPT ![buildKey(P.safeId)] = NoObject]
      /\ UNCHANGED <<fixed, calls, now, useMemoryStore, memoryNoticeLogged,
                     memoryStore>>
      /\ Done(p, procs, P, Ret(NoEntry), hist[p])

\* A delete that takes NoSuchKey for a failure.
DeleteNoSuchKeyThrows(p) ==
  LET P == procs[p]
  IN  /\ P.pc = "del"
      /\ s3[buildKey(P.safeId)].kind = "none"
      /\ UNCHANGED <<fixed, calls, now, useMemoryStore, memoryNoticeLogged,
                     memoryStore, s3>>
      /\ Done(p, procs, P, Thrown("NoSuchKey"), hist[p])

\* The DeleteObject answers NoSuchKey: deleteUsage returns.
DeleteNoSuchKey(p) ==
  LET P == procs[p]
  IN  /\ P.pc = "del"
      /\ s3[buildKey(P.safeId)].kind = "none"
      /\ UNCHANGED <<fixed, calls, now, useMemoryStore, memoryNoticeLogged,
                     memoryStore, s3>>
      /\ Done(p, procs, P, Ret(NoEntry), hist[p])

\* The DeleteObject fails with AccessDenied or in another way: deleteUsage
\* throws what it got.
DeleteError(p, what) ==
  LET P == procs[p]
  IN  /\ P.pc = "del"
      /\ UNCHANGED <<fixed, calls, now, useMemoryStore, memoryNoticeLogged,
                     memoryStore, s3>>
      /\ Done(p, procs, P, Thrown(what),
              [hist[p] EXCEPT !.fault = TRUE,
                              !.denied = @ \/ what = "AccessDenied",
                              !.failed = @ \/ what = "StorageError"])

\* A call of listUsage that returns items.
Listed(items) == [NoResult EXCEPT !.status = "ok", !.items = items]

\* Object.values(memoryStore).map(entry => ({ ...entry }))
MemoryItems ==
  LET present == SelectSeq(KeyOrder, LAMBDA x : memoryStore[x] # NoEntry)
  IN  [i \in 1..Len(present) |-> [memoryStore[present[i]] EXCEPT !.ref = 0]]

\* listUsage(), up to the first suspension
listUsage(p) ==
  LET P == [IdleProc EXCEPT !.op = "list"]
      h == Start(p, <<>>)
  IN  /\ Call(p)
      /\ UNCHANGED <<fixed, now, useMemoryStore, memoryNoticeLogged, memoryStore, s3>>
      /\ IF useMemoryStore
         THEN Done(p, procs, P, Listed(MemoryItems), h)
         ELSE /\ procs' = [procs EXCEPT ![p] = [P EXCEPT !.pc = "list"]]
              /\ hist' = [hist EXCEPT ![p] = [h EXCEPT !.reqS3 = TRUE]]

\* The ListObjectsV2 answers with the keys that follow the continuation
\* token, at most PageSize of them.
ListOk(p) ==
  LET P == procs[p]
      after == SelectSeq([i \in 1..Len(KeyOrder) |-> i],
                         LAMBDA i : i > P.token
                                    /\ s3[buildKey(KeyOrder[i])].kind # "none")
      page == SubSeq(after, 1, Min(PageSize, Len(after)))
      keys == [i \in 1..Len(page) |-> buildKey(KeyOrder[page[i]])]
      token == IF Len(after) > PageSize THEN page[Len(page)] ELSE 0
  IN  /\ P.pc = "list"
      /\ UNCHANGED <<fixed, calls, now, useMemoryStore, memoryNoticeLogged,
                     memoryStore, s3>>
      /\ IF keys = <<>>
         THEN Done(p, procs, P, Listed(P.results), hist[p])
         ELSE /\ procs' = [procs EXCEPT ![p] = [P EXCEPT !.pc = "lread",
                                                         !.keys = keys,
                                                         !.token = token]]
              /\ UNCHANGED hist

\* The ListObjectsV2 fails with AccessDenied or in another way: nothing
\* catches it, listUsage throws.
ListError(p, what) ==
  LET P == procs[p]
  IN  /\ P.pc = "list"
      /\ UNCHANGED <<fixed, calls, now, useMemoryStore, memoryNoticeLogged,
                     memoryStore, s3>>
      /\ Done(p, procs, P, Thrown(what),
              [hist[p] EXCEPT !.fault = TRUE,
                              !.denied = @ \/ what = "AccessDenied",
                              !.failed = @ \/ what = "StorageError"])

\* The loop of listUsage after it has dealt with the first of its keys:
\* the next key, the next page, or the return.
NextKey(p, results, h) ==
  LET P == procs[p]
      rest == Tail(P.keys)
  IN  IF rest # <<>>
      THEN /\ procs' = [procs EXCEPT ![p] = [P EXCEPT !.keys = rest,
                                                      !.results = results]]
           /\ hist' = [hist EXCEPT ![p] = h]
      ELSE IF P.token # 0
      THEN /\ procs' = [procs EXCEPT ![p] = [P EXCEPT !.pc = "list",
                                                      !.keys = <<>>,
                                                      !.results = results]]
           /\ hist' = [hist EXCEPT ![p] = h]
      ELSE Done(p, procs, P, Listed(results), h)

\* readEntryFromS3 inside listUsage: the GetObject answers with the object.
\* Text that is not JSON throws, which the loop logs and skips.
ListReadOk(p) ==
  LET P == procs[p]
      safeId == keyToSafeId(Head(P.keys))
      entry == s3[Head(P.keys)]
  IN  /\ P.pc = "lread"
      /\ entry.kind # "none"
      /\ UNCHANGED <<fixed, calls, now, useMemoryStore, memoryNoticeLogged,
                     memoryStore, s3>>
      /\ NextKey(p,
                 IF Truthy(entry)
                 THEN Append(P.results,
                             normalizeEntry(entry, OrId(entry.id, safeId), safeId, now))
                 ELSE P.results,
                 [hist[p] EXCEPT !.fault = @ \/ entry.kind = "garbage"])

\* The GetObject of the loop answers NoSuchKey: the key is skipped.
ListReadNoSuchKey(p) ==
  LET P == procs[p]
  IN  /\ P.pc = "lread"
      /\ s3[Head(P.keys)].kind = "none"
      /\ UNCHANGED <<fixed, calls, now, useMemoryStore, memoryNoticeLogged,
                     memoryStore, s3>>
      /\ NextKey(p, P.results, hist[p])

\* The GetObject of the loop answers AccessDenied: readEntryFromS3 switches
\* to the map and returns null, the key is skipped.
ListReadAccessDenied(p) ==
  LET P == procs[p]
  IN  /\ P.pc = "lread"
      /\ useMemoryStore' = TRUE
      /\ logMemoryFallback
      /\ UNCHANGED <<fixed, calls, now, memoryStore, s3>>
      /\ NextKey(p, P.results, [hist[p] EXCEPT !.fault = TRUE, !.denied = TRUE])

\* The GetObject of the loop fails in another way: logged and skipped.
ListReadError(p) ==
  LET P == procs[p]
  IN  /\ P.pc = "lread"
      /\ UNCHANGED <<fixed, calls, now, useMemoryStore, memoryNoticeLogged,
                     memoryStore, s3>>
      /\ NextKey(p, P.results, [hist[p] EXCEPT !.fault = TRUE, !.failed = TRUE])

\* The caller has taken the result: the slot is free for the next request.
Respond(p) ==
  /\ procs[p].pc = "done"
  /\ procs' = [procs EXCEPT ![p] = IdleProc]
  /\ hist' = [hist EXCEPT
                ![p] = [NoHist EXCEPT
                          !.after = IF /\ calls < scope.calls
                                       /\ procs[p].op = "delete"
                                       /\ procs[p].result.status = "ok"
                                    THEN procs[p].safeId
                                    ELSE NoCall]]
  /\ UNCHANGED <<fixed, calls, now, useMemoryStore, memoryNoticeLogged,
                 memoryStore, s3>>

Failures == {"AccessDenied", "StorageError"}

Next ==
  \E p \in Procs :
    \/ \E userId \in scope.ids : getUsage(p, userId)
    \/ \E userId \in scope.ids, type \in scope.types, amount \in scope.amounts :
         incrementUsage(p, userId, type, amount)
    \/ \E userId \in scope.ids : resetUsage(p, userId)
    \/ \E userId \in scope.ids : deleteUsage(p, userId)
    \/ listUsage(p)
    \/ Loaded(p)
    \/ ReadOk(p)
    \/ ReadNoSuchKey(p)
    \/ ReadAccessDenied(p)
    \/ ReadError(p)
    \/ SeedOk(p)
    \/ \E what \in Failures : SeedError(p, what)
    \/ WriteOk(p)
    \/ WriteAccessDenied(p)
    \/ WriteError(p)
    \/ DeleteOk(p)
    \/ DeleteNoSuchKey(p)
    \/ \E what \in Failures : DeleteError(p, what)
    \/ ListOk(p)
    \/ \E what \in Failures : ListError(p, what)
    \/ ListReadOk(p)
    \/ ListReadNoSuchKey(p)
    \/ ListReadAccessDenied(p)
    \/ ListReadError(p)
    \/ Respond(p)

Spec == Init /\ [][Next]_vars

\* ------------------------------------------------- the default-limit run

\* A process started with none of the limit variables set, on an empty store
\* of either mode, and one caller that increments listening by 1 for one
\* user, call after call, no request of which fails.
DefaultEnv == [sectionCount |-> Absent, sectionLimit |-> [t \in Types |-> Absent]]

Scenario ==
  [slots |-> 1, calls |-> ScenarioCalls, ids |-> {<<" ", "a">>},
   types |-> {"listening"}, amounts |-> {Num(1)}]

Init3 ==
  /\ env = DefaultEnv
  /\ scope = Scenario
  /\ now = 0
  /\ auth = NoAuth
  /\ web = NoWeb
  /\ calc = NoCalc
  /\ useMemoryStore \in BOOLEAN
  /\ memoryNoticeLogged = FALSE
  /\ s3 = [k \in Keys |-> NoObject]
  /\ memoryStore = [x \in SafeIds |-> NoEntry]
  /\ procs = [p \in Procs |-> IdleProc]
  /\ hist = [p \in Procs |-> NoHist]
  /\ calls = 0

Next3 ==
  \/ \E userId \in scope.ids, type \in scope.types, amount \in scope.amounts :
       incrementUsage(1, userId, type, amount)
  \/ Loaded(1)
  \/ ReadOk(1)
  \/ ReadNoSuchKey(1)
  \/ SeedOk(1)
  \/ WriteOk(1)
  \/ Respond(1)

Spec3 == Init3 /\ [][Next3]_vars

\* ------------------------------------------------ the configured limits

\* The calls of a run under a configured limit: one more than the largest
\* cap the run is to exhaust, 10 x 1.
LimitCalls == 11

\* What the environment holds for the per-section limit of a category:
\* nothing, 'unlimited', 0, 1, 2, 0.5, 1.5, -1, a word and 'Infinity'.
LimitValues ==
  {Absent, Unlimited, Num(0), Num(1), Num(2), Half(0), Half(1), Num(-1), NaN,
   PosInf}

\* What the environment holds for the section count: nothing, 1, 2, 0.5
\* and 0.
CountValues == {Absent, Num(1), Num(2), Half(0), Num(0)}

\* A process started with one category configured and the other two at
\* per-section limit 1, on an empty store of either mode, and one caller that
\* increments the configured category by 1 for one user, call after call, no
\* request of which fails.
InitLimits ==
  /\ \E t \in Types, v \in LimitValues, c \in CountValues :
       /\ env = [sectionCount |-> c,
                 sectionLimit |-> [u \in Types |-> IF u = t THEN v ELSE Num(1)]]
       /\ scope = [slots |-> 1, calls |-> LimitCalls, ids |-> {<<" ", "a">>},
                   types |-> {t}, amounts |-> {Num(1)}]
  /\ now = 0
  /\ auth = NoAuth
  /\ web = NoWeb
  /\ calc = NoCalc
  /\ useMemoryStore \in BOOLEAN
  /\ memoryNoticeLogged = FALSE
  /\ s3 = [k \in Keys |-> NoObject]
  /\ memoryStore = [x \in SafeIds |-> NoEntry]
  /\ procs = [p \in Procs |-> IdleProc]
  /\ hist = [p \in Procs |-> NoHist]
  /\ calls = 0

NextLimits ==
  \/ \E userId \in scope.ids, type \in scope.types, amount \in scope.amounts :
       incrementUsage(1, userId, type, amount)
  \/ Loaded(1)
  \/ ReadOk(1)
  \/ ReadNoSuchKey(1)
  \/ SeedOk(1)
  \/ WriteOk(1)
  \/ Respond(1)

SpecLimits == InitLimits /\ [][NextLimits]_vars

\* ------------------------------------------------- the remaining quota

\* resolveLimitForType(type, limits): limits[type] when limits has the type
\* as an own property (here: holds a value for it), DEFAULT_LIMITS[type] when
\* not.
resolveLimitForTypeOf(type, limits, e) ==
  LET source == IF limits[type].k # "absent" THEN limits[type]
                ELSE IF DEFAULT_LIMITS(e)[type] = Infinity THEN PosInf
                ELSE Num(DEFAULT_LIMITS(e)[type])
  IN  IF ~IsFiniteNum(source) \/ source.twice <= 0 THEN Infinity
      ELSE Floor(source)

\* A remaining quota that is the limit less the count, whatever the count.
Difference(entry, limits, e) ==
  [t \in Types |->
     LET limit == resolveLimitForTypeOf(t, limits, e)
     IN  IF limit = Infinity THEN Infinity
         ELSE limit - toCount(entry[field(t)])]

\* computeRemaining(entry, limits)
computeRemaining(entry, limits, e) ==
  [t \in Types |->
     LET limit == resolveLimitForTypeOf(t, limits, e)
     IN  IF limit = Infinity THEN Infinity
         ELSE Max(0, limit - toCount(entry[field(t)]))]

\* The counters of the records computeRemaining is called with: 0, 1, 2, 3,
\* and what a record that did not pass normalizeEntry can hold: -1, 1.5 and
\* no number.
UsedValues == {Num(0), Num(1), Num(2), Num(3), Num(-1), Half(1), NaN}

\* The records: every counter above for listening, 0 or 3 for the other two.
RemainingEntries ==
  {[createEntry(<<"a">>, <<"a">>, 0) EXCEPT !.listeningUsed = l,
                                            !.translationUsed = t,
                                            !.pronunciationUsed = p] :
     l \in UsedValues, t \in {Num(0), Num(3)}, p \in {Num(0), Num(3)}}

\* The limits arguments: for listening no own property, 2, 1, 1.5, 0, -1,
\* no number and Infinity; for the other two no own property or 2.
LimitsArgs ==
  {[t \in Types |-> IF t = "listening" THEN l
                    ELSE IF t = "translation" THEN tr ELSE pr] :
     l \in {Absent, Num(2), Num(1), Half(1), Num(0), Num(-1), NaN, PosInf},
     tr \in {Absent, Num(2)}, pr \in {Absent, Num(2)}}

\* A process at rest and one call of computeRemaining to make.
InitRemaining ==
  /\ env \in Envs
  /\ scope = Sequential
  /\ now = 0
  /\ auth = NoAuth
  /\ web = NoWeb
  /\ useMemoryStore = FALSE
  /\ memoryNoticeLogged = FALSE
  /\ s3 = [k \in Keys |-> NoObject]
  /\ memoryStore = [x \in SafeIds |-> NoEntry]
  /\ procs = [p \in Procs |-> IdleProc]
  /\ hist = [p \in Procs |-> NoHist]
  /\ calls = 0
  /\ calc \in {[NoCalc EXCEPT !.entry = entry, !.limits = limits] :
                 entry \in RemainingEntries, limits \in LimitsArgs}

\* The call: computeRemaining(entry, limits) returns.
Remaining ==
  /\ ~calc.done
  /\ calc' = [calc EXCEPT !.done = TRUE,
                          !.remaining = computeRemaining(calc.entry,
                                                         calc.limits, env)]
  /\ UNCHANGED <<store, auth, web>>

NextRemaining == Remaining

SpecRemaining == InitRemaining /\ [][NextRemaining]_vars

\* ------------------------------------------------------- the token service

\* signToken(userId, expiresInSeconds): throws without a secret; otherwise
\* returns the token and its payload, and the caller keeps the token.
signToken(userId, expiresInSeconds) ==
  /\ auth.issued < MaxTokens
  /\ IF auth.secret = ""
     THEN auth' =
            [auth EXCEPT
               !.issued = @ + 1,
               !.signed = [NoSigned EXCEPT !.status = "ConfigError",
                                           !.userId = userId,
                                           !.ttl = expiresInSeconds,
                                           !.at = auth.clock],
               !.verdict = NoVerdict]
     ELSE LET payload == Payload(userId, expiresInSeconds, auth.clock)
              token == Issue(auth.secret, userId, expiresInSeconds, auth.clock)
          IN  auth' =
                [auth EXCEPT
                   !.issued = @ + 1,
                   !.token = token,
                   !.signed = [status |-> "ok", userId |-> userId,
                               ttl |-> expiresInSeconds, at |-> auth.clock,
                               token |-> token, payload |-> payload],
                   !.verdict = NoVerdict]
  /\ UNCHANGED <<store, web, calc>>

\* verifyToken(token) on the token the caller holds.
verifyToken ==
  /\ LET answer == verifyTokenAt(auth.secret, auth.token, auth.clock)
     IN  auth' =
           [auth EXCEPT
              !.verdict = [status |-> answer.status, at |-> auth.clock,
                           token |-> auth.token, payload |-> answer.payload]]
  /\ UNCHANGED <<store, web, calc>>

\* Date.now() moves on by half a second.
Tick ==
  /\ auth.clock < Epoch + MaxTicks
  /\ auth' = [auth EXCEPT !.clock = @ + 1]
  /\ UNCHANGED <<store, web, calc>>

\* The caller changes the token it was given before presenting it: a byte
\* of the signature, the algorithm in the header, the expiry in the payload,
\* the signature for one made with a key of its own, or the number of
\* segments.
Tamper(what) ==
  /\ auth.token.kind = "jwt"
  /\ auth.token = auth.signed.token
  /\ auth' =
       [auth EXCEPT
          !.token =
            CASE what = "signature" -> [@ EXCEPT !.sig.flip = TRUE]
              [] what = "header" -> [@ EXCEPT !.header.b64.sub = <<"none">>]
              [] what = "key" -> [@ EXCEPT !.sig.key = "k"]
              [] what = "payload" ->
                   [@ EXCEPT !.payload.b64.exp = Num(DefaultTtl)]
              [] OTHER -> [@ EXCEPT !.kind = "malformed"]]
  /\ auth'.token # auth.token
  /\ UNCHANGED <<store, web, calc>>

\* A process with or without a secret, before its first request; its quota
\* store is empty and stays so.
InitAuth ==
  /\ env = DefaultEnv
  /\ scope = Scenario
  /\ now = 0
  /\ useMemoryStore = FALSE
  /\ memoryNoticeLogged = FALSE
  /\ s3 = [k \in Keys |-> NoObject]
  /\ memoryStore = [x \in SafeIds |-> NoEntry]
  /\ procs = [p \in Procs |-> IdleProc]
  /\ hist = [p \in Procs |-> NoHist]
  /\ calls = 0
  /\ auth \in {[NoAuth EXCEPT !.secret = secret] : secret \in Secrets}
  /\ web = NoWeb
  /\ calc = NoCalc

NextAuth ==
  \/ \E userId \in UserIds, expiresInSeconds \in Ttls :
       signToken(userId, expiresInSeconds)
  \/ verifyToken
  \/ Tick
  \/ \E what \in {"signature", "header", "payload", "key", "malformed"} :
       Tamper(what)

SpecAuth == InitAuth /\ [][NextAuth]_vars

\* ------------------------------------------------------------ the endpoints

\* normalizeType(type) of the usage handler; "" when it knows no such type.
normalizeType(type) ==
  CASE type \in {"listen", "listening"} -> "listening"
    [] type \in {"translate", "translation"} -> "translation"
    [] type \in {"pronunciation", "speaking"} -> "pronunciation"
    [] OTHER -> ""

\* The tokens requests carry: none, a string that is no token, and tokens
\* the server issued for a second, for each subject one that is still good
\* and for the first subject one that has expired, one with a byte of its
\* signature changed and one signed with a key of the caller.
Presented(subjects, first) ==
  {NoToken, [NoToken EXCEPT !.kind = "malformed"]}
    \cup {Issue(auth.secret, sub, Num(1), Epoch) : sub \in subjects}
    \cup {Issue(auth.secret, first, Num(1), Epoch - 4),
          [Issue(auth.secret, first, Num(1), Epoch) EXCEPT !.sig.flip = TRUE],
          Issue("k", first, Num(1), Epoch)}

\* The requests to the usage endpoint: GET, POST { type, amount } and a
\* method it does not serve, from the users of the store; the body of a
\* POST may name a user as well, which the handler does not read.
UsageRequests ==
  {[NoRequest EXCEPT !.endpoint = "usage", !.method = "GET", !.token = token] :
     token \in Presented(scope.ids, <<" ", "a">>)}
    \cup {[NoRequest EXCEPT !.endpoint = "usage", !.method = "PUT",
                            !.token = token] :
            token \in Presented(scope.ids, <<" ", "a">>)}
    \cup {[NoRequest EXCEPT !.endpoint = "usage", !.method = "POST",
                            !.token = token, !.type = type, !.amount = amount,
                            !.userId = userId] :
            token \in Presented(scope.ids, <<" ", "a">>),
            type \in {"absent", "listen", "grammar"},
            amount \in scope.amounts,
            userId \in {<<>>, <<"/">>}}

\* The requests to the admin endpoint: GET, POST { action, userId } and a
\* method it does not serve, from the admin and from another user.
AdminRequests ==
  {[NoRequest EXCEPT !.endpoint = "admin", !.method = method, !.token = token] :
     method \in {"GET", "PUT"}, token \in Presented({AdminId, BobId}, AdminId)}
    \cup {[NoRequest EXCEPT !.endpoint = "admin", !.method = "POST",
                            !.token = token, !.action = action,
                            !.userId = userId] :
            token \in Presented({AdminId, BobId}, AdminId),
            action \in {"absent", "reset", "delete", "get", "purge"},
            userId \in {<<>>, <<" ", "a">>, <<"/">>}}

\* The requests to the auth endpoint: POST { userId, password } for a user
\* with a plain credential, one with a bcrypt hash, one with the optional
\* prefix, one of no configuration and no user, with no password, the
\* password of the first and that of the second; GET with a token; and a
\* method it does not serve.
AuthRequests ==
  {[NoRequest EXCEPT !.endpoint = "auth", !.method = "POST",
                     !.userId = userId, !.password = password] :
     userId \in {AdminId, <<" ">> \o BobId, GuestId, CarolId, <<>>},
     password \in {"", "p", "q"}}
    \cup {[NoRequest EXCEPT !.endpoint = "auth", !.method = method,
                            !.token = token] :
            method \in {"GET", "PUT"}, token \in Presented({BobId}, BobId)}

\* The store as an endpoint leaves it when it only answers.
Answered ==
  UNCHANGED <<env, scope, auth, calc, now, useMemoryStore, memoryNoticeLogged,
              memoryStore, s3, calls>>

\* A request arrives; the handler has not run yet.  Serving it can take two
\* calls of the store.
Arrive(req) ==
  /\ web.stage \in {"idle", "replied"}
  /\ calls + 2 <= scope.calls
  /\ web' = [web EXCEPT !.stage = "arrived", !.req = req, !.res = NoResponse]
  /\ UNCHANGED <<procs, hist>>
  /\ Answered

\* res.status(...).json(...) with no call of the store in flight.
Send(res) ==
  /\ web' = [web EXCEPT !.stage = "replied", !.res = res]
  /\ UNCHANGED <<procs, hist>>
  /\ Answered

\* res.status(...).json(...) as the call of the store has ended.
SendAfter(res) ==
  /\ web' = [web EXCEPT !.stage = "replied", !.res = res]
  /\ procs' = [procs EXCEPT ![1] = IdleProc]
  /\ hist' = [hist EXCEPT ![1] = NoHist]
  /\ Answered

\* An admin handler that asks for no token.
adminHandlerOpen ==
  LET req == web.req
      action == IF req.action = "absent" THEN "reset" ELSE req.action
      targetUserId == sanitizeUserId(req.userId)
  IN  /\ web.stage = "arrived"
      /\ req.endpoint = "admin"
      /\ procs[1].pc = "idle"
      /\ IF req.method = "GET" THEN listUsage(1)
         ELSE IF req.method # "POST" THEN Send(Failure(405, "Method Not Allowed"))
         ELSE IF targetUserId = <<>> THEN Send(Failure(400, "userId is required"))
         ELSE IF action = "reset" THEN resetUsage(1, targetUserId)
         ELSE IF action = "delete" THEN deleteUsage(1, targetUserId)
         ELSE IF action = "get" THEN getUsage(1, targetUserId)
         ELSE Send(Failure(400, "Unsupported action"))

\* The admin handler (src/api/usage-admin.js), up to its first suspension or
\* its response.
adminHandler ==
  LET req == web.req
      admin == requireAdmin(web.admins, auth.secret, req.token, auth.clock)
      action == IF req.action = "absent" THEN "reset" ELSE req.action
      targetUserId == sanitizeUserId(req.userId)
  IN  /\ web.stage = "arrived"
      /\ req.endpoint = "admin"
      /\ procs[1].pc = "idle"
      /\ IF admin.res.status # 0 THEN Send(admin.res)
         ELSE IF req.method = "GET" THEN listUsage(1)
         ELSE IF req.method # "POST" THEN Send(Failure(405, "Method Not Allowed"))
         ELSE IF targetUserId = <<>> THEN Send(Failure(400, "userId is required"))
         ELSE IF action = "reset" THEN resetUsage(1, targetUserId)
         ELSE IF action = "delete" THEN deleteUsage(1, targetUserId)
         ELSE IF action = "get" THEN getUsage(1, targetUserId)
         ELSE Send(Failure(400, "Unsupported action"))

\* The auth handler (src/api/auth.js): POST issues a token, GET tells whose
\* token the request carries.  It calls no operation of the store.
authHandler ==
  LET req == web.req
      normalizedUserId == TrimEnd(TrimStart(req.userId))
      needsPassword == ~isPasswordOptionalUser(normalizedUserId)
      passwordProvided == req.password # ""
      user == authenticateUser(web.users, normalizedUserId,
                               IF needsPassword THEN req.password ELSE "")
      found == requireAuth(auth.secret, req.token, auth.clock)
  IN  /\ web.stage = "arrived"
      /\ req.endpoint = "auth"
      /\ procs[1].pc = "idle"
      /\ IF req.method = "POST"
         THEN IF normalizedUserId = <<>> \/ (needsPassword /\ ~passwordProvided)
              THEN Send(Failure(400, "userId and password are required"))
              ELSE IF user = NoUser
              THEN Send(Failure(401, "Invalid credentials"))
              ELSE IF auth.secret = ""
              THEN Send(Failure(500, "Internal Server Error"))
              ELSE Send([NoResponse EXCEPT
                           !.status = 200, !.ok = TRUE, !.user = user,
                           !.token = Issue(auth.secret, user.id,
                                           Num(DefaultTtl), auth.clock)])
         ELSE IF req.method = "GET"
         THEN IF found.res.status # 0 THEN Send(found.res)
              ELSE Send([NoResponse EXCEPT !.status = 200, !.ok = TRUE,
                                           !.user = found.user])
         ELSE Send(Failure(405, "Method Not Allowed"))

\* The admin handler as its call of the store has ended: the response.
adminReply ==
  LET r == procs[1].result
  IN  /\ web.stage = "arrived"
      /\ web.req.endpoint = "admin"
      /\ procs[1].pc = "done"
      /\ SendAfter(
           IF r.status # "ok" THEN Failure(500, "Internal Server Error")
           ELSE [NoResponse EXCEPT !.status = 200, !.ok = TRUE,
                                   !.item = r.value, !.items = r.items])

\* A usage handler that takes the user of its increment from the body of
\* the request when the body names one.
usageHandlerFromBody ==
  LET req == web.req
      found == requireAuth(auth.secret, req.token, auth.clock)
      normalizedType == normalizeType(req.type)
      userId == IF req.userId # <<>> THEN req.userId ELSE found.user.id
  IN  /\ web.stage = "arrived"
      /\ req.endpoint = "usage"
      /\ procs[1].pc = "idle"
      /\ IF found.res.status # 0 THEN Send(found.res)
         ELSE IF req.method = "GET" THEN getUsage(1, found.user.id)
         ELSE IF req.method # "POST" THEN Send(Failure(405, "Method Not Allowed"))
         ELSE IF normalizedType = "" THEN Send(Failure(400, "type is required"))
         ELSE incrementUsage(1, userId, normalizedType, req.amount)

\* The usage handler (src/unnamed/part_001), up to its first suspension or its
\* response.
usageHandler ==
  LET req == web.req
      found == requireAuth(auth.secret, req.token, auth.clock)
      normalizedType == normalizeType(req.type)
  IN  /\ web.stage = "arrived"
      /\ req.endpoint = "usage"
      /\ procs[1].pc = "idle"
      /\ IF found.res.status # 0 THEN Send(found.res)
         ELSE IF req.method = "GET" THEN getUsage(1, found.user.id)
         ELSE IF req.method # "POST" THEN Send(Failure(405, "Method Not Allowed"))
         ELSE IF normalizedType = "" THEN Send(Failure(400, "type is required"))
         ELSE incrementUsage(1, found.user.id, normalizedType, req.amount)

\* buildUsagePayload(entry): usage, limits and remaining of the entry.
buildUsagePayload(entry) ==
  [NoResponse EXCEPT !.status = 200, !.ok = TRUE, !.snapshot = TRUE,
                     !.item = entry]

\* The usage handler as its call of the store has ended with a record or
\* with an error that is no quota error: the response.
usageReply ==
  LET r == procs[1].result
  IN  /\ web.stage = "arrived"
      /\ web.req.endpoint = "usage"
      /\ procs[1].pc = "done"
      /\ r.status # "QuotaExceeded"
      /\ SendAfter(IF r.status = "ok" THEN buildUsagePayload(r.value)
                   ELSE Failure(500, "Internal Server Error"))

\* The usage handler catches the quota error of its incrementUsage.
usageCaught ==
  LET r == procs[1].result
  IN  /\ web.stage = "arrived"
      /\ web.req.endpoint = "usage"
      /\ procs[1].pc = "done"
      /\ r.status = "QuotaExceeded"
      /\ web' = [web EXCEPT
                   !.stage = "caught",
                   !.res.exceeded =
                     [type |-> r.type, limit |-> r.limit, used |-> r.used]]
      /\ procs' = [procs EXCEPT ![1] = IdleProc]
      /\ hist' = [hist EXCEPT ![1] = NoHist]
      /\ Answered

\* ... and asks the store for the record of the user (user.id, the subject
\* of the token that requireAuth accepted),
usageRefetch ==
  /\ web.stage = "caught"
  /\ procs[1].pc = "idle"
  /\ getUsage(1, base64urlDecode(web.req.token.payload).sub)

\* ... which it sends with the error, if it got it.
usageExceeded ==
  LET r == procs[1].result
  IN  /\ web.stage = "caught"
      /\ procs[1].pc = "done"
      /\ SendAfter(
           IF r.status = "ok"
           THEN [buildUsagePayload(r.value) EXCEPT
                   !.status = 429, !.error = "Quota exceeded",
                   !.exceeded = web.res.exceeded]
           ELSE Failure(429, "Quota exceeded"))

\* What ADMIN_USERS is set to: nothing, 'admin', 'bob, admin'.
AdminEnvs == {<<>>, AdminId, BobId \o <<",", " ">> \o AdminId}

\* The requests are served one at a time and at one reading of the clock;
\* the store is asked MaxCalls times at most.
WebScope ==
  [slots |-> 1, calls |-> MaxCalls, ids |-> RawIds, types |-> Types,
   amounts |-> {Absent, Num(3)}]

\* AUTH_USERS: admin with the credential 'plain:p', bob with a bcrypt
\* hash of 'q'.
WebUsers ==
  {Credential(AdminId, "plain", "p"), Credential(BobId, "bcrypt", "q")}

\* A process with a secret and the admins and users of its configuration,
\* observed as in Init with no request in flight.
InitWeb ==
  /\ Observed
  /\ scope = WebScope
  /\ auth = [NoAuth EXCEPT !.secret = "s"]
  /\ web \in {[NoWeb EXCEPT !.admins = admins, !.users = WebUsers] :
                admins \in AdminEnvs}
  /\ calc = NoCalc

\* The steps of the endpoints, and the answers of the backend to the call
\* in flight (all but the NoSuchKey that only a concurrent delete makes a
\* listing see).
NextWeb ==
  \/ \E req \in UsageRequests \cup AdminRequests \cup AuthRequests : Arrive(req)
  \/ authHandler
  \/ adminHandler
  \/ adminReply
  \/ usageHandler
  \/ usageReply
  \/ usageCaught
  \/ usageRefetch
  \/ usageExceeded
  \/ Loaded(1)
  \/ ReadOk(1)
  \/ ReadNoSuchKey(1)
  \/ ReadAccessDenied(1)
  \/ ReadError(1)
  \/ SeedOk(1)
  \/ \E what \in Failures : SeedError(1, what)
  \/ WriteOk(1)
  \/ WriteAccessDenied(1)
  \/ WriteError(1)
  \/ DeleteOk(1)
  \/ DeleteNoSuchKey(1)
  \/ \E what \in Failures : DeleteError(1, what)
  \/ ListOk(1)
  \/ \E what \in Failures : ListError(1, what)
  \/ ListReadOk(1)
  \/ ListReadAccessDenied(1)
  \/ ListReadError(1)

SpecWeb == InitWeb /\ [][NextWeb]_vars

\* ------------------------------------------------------------- properties

\* The usage of a type that a stored value counts as: what toCount makes of
\* its counter, 0 when there is no record.
Used(obj, type) == toCount(obj[field(type)])

\* The overall cap of a type in this process.
Cap(type) == resolveLimitForType(type, env)

\* The call of request p has ended.
Ended1(p) == procs[p].pc = "done"

\* The call of request p ran beside no other call on its user, the backend
\* answered each of its requests, with JSON text where it answered with an
\* object, and the backend mode is the one the call started in.
Quiet(p) ==
  ~hist[p].overlap /\ ~hist[p].fault /\ hist[p].mem = useMemoryStore

\* The call of request p is an incrementUsage with an id and a type the
\* function accepts.
ValidIncrement(p) ==
  /\ Ended1(p)
  /\ procs[p].op = "inc"
  /\ procs[p].safeId # <<>>
  /\ procs[p].type \in Types

\* C1, first half: an incrementUsage(id, cat, n) of a category with a finite
\* cap L, on stored usage u with u + n <= L and beside no other call on the
\* user, returns a record with used = u + n and leaves a record with
\* used = u + n in the backend.
IncrementAdds ==
  \A p \in Procs :
    LET P == procs[p]
        u == Used(hist[p].pre, P.type)
        n == P.incrementBy
    IN  (ValidIncrement(p) /\ Quiet(p) /\ Cap(P.type) # Infinity
           /\ u + n <= Cap(P.type))
          => /\ P.result.status = "ok"
             /\ P.result.value[field(P.type)] = Num(u + n)
             /\ hist[p].post.kind = "obj"
             /\ Used(hist[p].post, P.type) = u + n

\* C1, second half: a getUsage(id) beside no other call on the user returns
\* the usage the backend holds when it starts.
GetReadsStored ==
  \A p \in Procs :
    (Ended1(p) /\ procs[p].op = "get" /\ procs[p].safeId # <<>> /\ Quiet(p))
      => /\ procs[p].result.status = "ok"
         /\ \A t \in Types :
              procs[p].result.value[field(t)] = Num(Used(hist[p].pre, t))

\* C1: an increment within a finite cap, run without an overlapping
\* operation on the user, succeeds, and the returned record and the record
\* the next getUsage reads both have used = u + n.
C1_IncrementWithinCap == IncrementAdds /\ GetReadsStored

\* An increment of 1 on stored usage 1 under the cap of 2 has returned, on
\* the durable backend.
C1_Witness ==
  \E p \in Procs :
    /\ ValidIncrement(p) /\ Quiet(p)
    /\ ~hist[p].mem
    /\ Cap(procs[p].type) = 2
    /\ Used(hist[p].pre, procs[p].type) = 1
    /\ procs[p].incrementBy = 1
    /\ procs[p].result.status = "ok"

\* The call of request p is an increment that would pass the finite cap of
\* its type, beside no other call on the user.
ExceedingIncrement(p) ==
  /\ ValidIncrement(p)
  /\ Quiet(p)
  /\ Cap(procs[p].type) # Infinity
  /\ Used(hist[p].pre, procs[p].type) + procs[p].incrementBy > Cap(procs[p].type)

\* C2 as stated: an increment that would pass a finite cap fails with a
\* quota-exceeded error, the record of the user in the active backend is
\* exactly what it was before the call, and the call issues no write.
C2_NoWriteAtAll ==
  \A p \in Procs :
    ExceedingIncrement(p)
      => /\ procs[p].result.status = "QuotaExceeded"
         /\ hist[p].post = hist[p].pre
         /\ ~hist[p].wrote

\* C2, amended: an increment that would pass a finite cap fails with a
\* quota-exceeded error that carries the type, the cap and the usage before
\* the call, and no counter of the user changes.  When the backend holds a
\* record of the user, the record stays exactly what it was and the call
\* issues no write; when it holds none (or the object is a falsy JSON value)
\* the call first stores a fresh record with all counters 0.
C2_NoCounterChange ==
  \A p \in Procs :
    LET P == procs[p]
        h == hist[p]
    IN  ExceedingIncrement(p)
          => /\ P.result.status = "QuotaExceeded"
             /\ P.result.type = P.type
             /\ P.result.limit = Cap(P.type)
             /\ P.result.used = Used(h.pre, P.type)
             /\ \A t \in Types : Used(h.post, t) = Used(h.pre, t)
             /\ h.pre.kind \in {"obj", "nonobj"} => (h.post = h.pre /\ ~h.wrote)
             /\ h.pre.kind \in {"none", "falsy"}
                  => /\ h.wrote
                     /\ h.post.kind = "obj"
                     /\ h.post.resetAt = Null
                     /\ \A t \in Types : h.post[field(t)] = Num(0)

\* An increment of 3 under the cap of 2 has failed for a user of whom the
\* backend held no record, and has stored one.
C2_Witness ==
  \E p \in Procs :
    /\ ExceedingIncrement(p)
    /\ hist[p].pre.kind = "none"
    /\ procs[p].incrementBy = 3
    /\ procs[p].result.status = "QuotaExceeded"
    /\ hist[p].post.kind = "obj"

\* C3: with per-section limit 10 and section count 17 the listening cap is
\* 170; from a fresh user the first 170 sequential increments of listening
\* by 1 succeed (the k-th returns and stores k), and the 171st fails
\* with a quota-exceeded error of type listening, limit 170, used 170,
\* the stored counter staying 170.
C3_DefaultCap ==
  /\ Cap("listening") = 170
  /\ \A p \in Procs :
       Ended1(p) =>
         IF calls <= 170
         THEN /\ procs[p].result.status = "ok"
              /\ procs[p].result.value.listeningUsed = Num(calls)
              /\ Used(hist[p].post, "listening") = calls
         ELSE /\ procs[p].result.status = "QuotaExceeded"
              /\ procs[p].result.type = "listening"
              /\ procs[p].result.limit = 170
              /\ procs[p].result.used = 170
              /\ Used(hist[p].post, "listening") = 170

\* The 171st increment of the run has failed on the durable backend.
C3_Witness ==
  /\ calls = 171
  /\ ~useMemoryStore
  /\ Ended1(1)
  /\ procs[1].op = "inc"
  /\ procs[1].result.status = "QuotaExceeded"
  /\ s3[buildKey(<<"a">>)].listeningUsed = Num(170)

\* C4 as stated: a getUsage or incrementUsage that runs beside no other call
\* on the user never returns a counter below the usage the backend held for
\* the user when the call started (which is what the getUsage before it
\* returned), a failover during the call included.
C4_NeverDecreases ==
  \A p \in Procs :
    (Ended1(p) /\ procs[p].op \in {"get", "inc"} /\ ~hist[p].overlap
       /\ procs[p].result.status = "ok")
      => \A t \in Types :
           Floor(procs[p].result.value[field(t)]) >= Used(hist[p].pre, t)

\* A JavaScript value that is an integer >= 0.
IsCount(v) == v.k = "num" /\ v.twice >= 0 /\ v.twice % 2 = 0

\* The records the call of request p returned.
Returned(p) ==
  IF ~Ended1(p) \/ procs[p].result.status # "ok" THEN {}
  ELSE IF procs[p].op \in {"get", "inc", "reset"} THEN {procs[p].result.value}
  ELSE IF procs[p].op = "list"
  THEN {procs[p].result.items[i] : i \in 1..Len(procs[p].result.items)}
  ELSE {}

\* C5: every record getUsage, incrementUsage, resetUsage or listUsage
\* returns has three counters that are integers >= 0, in both backends and
\* whatever the stored record holds.
C5_CountersAreCounts ==
  \A p \in Procs : \A r \in Returned(p) : \A f \in Fields : IsCount(r[f])

\* A call has returned the record of a user whose stored counters were a
\* negative number, a fraction and a non-number; so has a listUsage.
C5_Witness ==
  /\ \E p \in Procs :
       /\ Returned(p) # {}
       /\ procs[p].op = "get"
       /\ hist[p].pre.listeningUsed = Num(-1)
       /\ hist[p].pre.translationUsed = Half(1)
       /\ hist[p].pre.pronunciationUsed = NaN
       /\ hist[p].pre.kind = "obj"
  /\ \E q \in Procs : procs[q].op = "list" /\ Returned(q) # {}

\* The backend that is active is the one the call of request p wrote to
\* last: the mode did not change during the call, or the call itself
\* switched it (and saved to the map).
Settled(p) == hist[p].fault \/ hist[p].mem = useMemoryStore

\* C6: resetUsage(id), whatever the backend holds for the user, returns a
\* record with all three counters 0 and a resetAt that is set, not later
\* than its updatedAt and not later than the time the call returns, and the
\* backend holds that record when the call returns.  It returns whenever
\* the backend answers each of its requests.
C6_ResetZeroes ==
  \A p \in Procs :
    LET r == procs[p].result
        h == hist[p]
    IN  (Ended1(p) /\ procs[p].op = "reset" /\ procs[p].safeId # <<>>)
          => /\ ~h.fault => r.status = "ok"
             /\ r.status = "ok"
                  => /\ \A f \in Fields : r.value[f] = Num(0)
                     /\ r.value.resetAt # Null
                     /\ r.value.resetAt <= r.value.updatedAt
                     /\ r.value.updatedAt <= now
                     /\ Settled(p)
                          => /\ h.post.kind = "obj"
                             /\ \A f \in Fields : h.post[f] = Num(0)
                             /\ h.post.resetAt = r.value.resetAt
                             /\ h.post.updatedAt = r.value.updatedAt

\* A resetUsage has returned for a user whose stored usage was 1, the clock
\* having moved between the reset and the save.
C6_Witness ==
  \E p \in Procs :
    /\ Ended1(p)
    /\ procs[p].op = "reset"
    /\ procs[p].result.status = "ok"
    /\ Used(hist[p].pre, "listening") = 1
    /\ ~hist[p].mem
    /\ procs[p].result.value.resetAt = 0
    /\ procs[p].result.value.updatedAt = 1
    /\ hist[p].post.resetAt = 0

\* The call of request p is a deleteUsage of a user, beside no other call
\* on the user.
QuietDelete(p) ==
  Ended1(p) /\ procs[p].op = "delete" /\ procs[p].safeId # <<>> /\ Quiet(p)

\* The call of request p follows, with no call of another caller between,
\* a deleteUsage of the same id that returned.
AfterDelete(p) ==
  scope.slots = 1 /\ procs[p].safeId # <<>> /\ hist[p].after = procs[p].safeId

\* C7: the getUsage(id) that follows a completed deleteUsage(id) does not
\* fail and returns all three counters 0 and no resetAt, in both backends
\* and whatever the counters were: the deleteUsage leaves no record of the
\* user, and a getUsage that finds none returns a fresh one.
C7_DeleteThenGet ==
  /\ \A p \in Procs :
       (Ended1(p) /\ procs[p].op = "get" /\ Quiet(p) /\ AfterDelete(p))
         => /\ hist[p].pre.kind = "none"
            /\ procs[p].result.status = "ok"
            /\ \A f \in Fields : procs[p].result.value[f] = Num(0)
            /\ procs[p].result.value.resetAt = Null
  /\ \A p \in Procs :
       (QuietDelete(p) /\ procs[p].result.status = "ok")
         => hist[p].post.kind = "none"
  /\ \A p \in Procs :
       (Ended1(p) /\ procs[p].op = "get" /\ procs[p].safeId # <<>> /\ Quiet(p)
          /\ hist[p].pre.kind = "none")
         => /\ procs[p].result.status = "ok"
            /\ \A f \in Fields : procs[p].result.value[f] = Num(0)
            /\ procs[p].result.value.resetAt = Null
            /\ hist[p].post.kind = "obj"

\* A getUsage that follows a deleteUsage of the same id has returned a
\* zeroed record on the durable backend.
C7_Witness ==
  \E p \in Procs :
    /\ AfterDelete(p)
    /\ Ended1(p) /\ procs[p].op = "get" /\ Quiet(p)
    /\ ~hist[p].mem
    /\ hist[p].pre.kind = "none"
    /\ procs[p].result.status = "ok"
    /\ procs[p].result.value.listeningUsed = Num(0)

\* Request p, in this step, ends a deleteUsage of a user of whom the
\* backend held no record when the call started, beside no other call on
\* the user.
EndsDeleteOfNone(p) ==
  /\ procs[p].pc # "done"
  /\ procs'[p].pc = "done"
  /\ procs'[p].op = "delete"
  /\ hist'[p].pre.kind = "none"
  /\ ~hist'[p].overlap
  /\ hist'[p].mem = useMemoryStore'

\* C8: deleteUsage(id) for an id with no stored record returns without
\* error whenever the backend answers, and the step in which it ends
\* leaves the bucket and the map as they are; a deleteUsage leaves no
\* record in either case, so a second one has the effect and outcome of
\* the first alone.
C8_DeleteIdempotent ==
  /\ [](\A p \in Procs :
          QuietDelete(p)
            => /\ procs[p].result.status = "ok"
               /\ hist[p].post.kind = "none"
               /\ hist[p].pre.kind = "none" => hist[p].post = hist[p].pre
               /\ AfterDelete(p) => hist[p].pre.kind = "none")
  /\ [][\A p \in Procs :
          EndsDeleteOfNone(p) => (s3' = s3 /\ memoryStore' = memoryStore)]_vars

\* A deleteUsage that follows a deleteUsage of the same id has returned on
\* the durable backend.
C8_Witness ==
  \E p \in Procs :
    /\ AfterDelete(p)
    /\ QuietDelete(p)
    /\ ~hist[p].mem
    /\ hist[p].pre.kind = "none"
    /\ procs[p].result.status = "ok"

\* What a call that starts in volatile mode does: it never waits for the
\* bucket and issues no request to it, no backend failure reaches it, the
\* API reports storage 'memory' from then on, and a getUsage returns what
\* the map holds.
ServedFromMemory(p) ==
  (hist[p].mem /\ procs[p].op # "idle")
    => /\ ~hist[p].reqS3
       /\ ~hist[p].fault
       /\ procs[p].pc \in {"loaded", "done"}
       /\ procs[p].result.status
            \in {"none", "ok", "QuotaExceeded", "IdentityError", "UnsupportedType"}
       /\ storage(useMemoryStore) = "memory"
       /\ (Ended1(p) /\ procs[p].op = "get" /\ procs[p].safeId # <<>>
             /\ ~hist[p].overlap)
            => \A t \in Types :
                 procs[p].result.value[field(t)] = Num(Used(hist[p].pre, t))

\* C9: the backend mode never goes back from volatile to durable, and
\* every getUsage, incrementUsage, resetUsage, deleteUsage and listUsage
\* that starts in volatile mode is served from the map only, issues no
\* durable-backend request, and the API reports storage 'memory'.
C9_OneWayVolatile ==
  /\ [][useMemoryStore => useMemoryStore']_vars
  /\ [](\A p \in Procs : ServedFromMemory(p))

\* After a switch during the run, an incrementUsage that started in
\* volatile mode has returned.
C9_Witness ==
  \E p \in Procs :
    /\ memoryNoticeLogged
    /\ hist[p].mem
    /\ Ended1(p)
    /\ procs[p].op = "inc"
    /\ procs[p].result.status = "ok"
    /\ s3[buildKey(procs[p].safeId)] # hist[p].post

\* C10 as stated: whenever a durable-backend request of a call (a read, a
\* write, the delete of deleteUsage, the enumeration of listUsage) has been
\* answered AccessDenied, the process is in volatile mode.
C10_DeniedSwitches ==
  \A p \in Procs : hist[p].denied => useMemoryStore

\* C11 as stated: a getUsage, incrementUsage or resetUsage during which a
\* durable read or write was answered AccessDenied does not throw that
\* error to its caller.
C11_DeniedNotSurfaced ==
  \A p \in Procs :
    (Ended1(p) /\ procs[p].op \in {"get", "inc", "reset"} /\ hist[p].denied)
      => procs[p].result.status # "AccessDenied"

\* C12 as stated: a call of any accounting operation during which a durable
\* request failed with an error that is neither not-found nor AccessDenied
\* throws a storage error to its caller, and the failure does not switch the
\* process to the volatile backend.
C12_StorageErrorPropagates ==
  \A p \in Procs :
    (Ended1(p) /\ hist[p].failed)
      => /\ procs[p].result.status = "StorageError"
         /\ (scope.slots = 1 /\ ~hist[p].denied) => useMemoryStore = hist[p].mem

SwitchStep == ~useMemoryStore /\ useMemoryStore'

\* Request p, in this step, gets AccessDenied for a GetObject (of loadEntry
\* or of listUsage) or for the PutObject of saveEntry.
DeniedReadOrSave(p) ==
  /\ procs[p].pc \in {"read", "lread", "write"}
  /\ ~hist[p].denied
  /\ hist'[p].denied

Carries(obj, r) ==
  /\ obj.kind = "obj"
  /\ obj.id = r.id
  /\ obj.resetAt = r.resetAt
  /\ \A f \in Fields : obj[f] = r[f]

\* C14, save: a call that saves (incrementUsage, resetUsage) returns the
\* normalized record, whose counters are integers >= 0, and the backend
\* holds its id, counters and resetAt when the call returns.
SaveStores ==
  \A p \in Procs :
    (Ended1(p) /\ procs[p].op \in {"inc", "reset"}
       /\ procs[p].result.status = "ok" /\ Settled(p))
      => /\ Carries(hist[p].post, procs[p].result.value)
         /\ procs[p].result.value.safeId = procs[p].safeId
         /\ procs[p].result.value.id # <<>>

\* C14, load: a load (getUsage) of an id for which the backend holds a
\* record with an id and counters that are integers >= 0, beside no other
\* call on the id, yields that id, those counters and that resetAt, and
\* the safe id of the id.
LoadYieldsStored ==
  \A p \in Procs :
    (Ended1(p) /\ procs[p].op = "get" /\ Quiet(p)
       /\ hist[p].pre.kind = "obj" /\ hist[p].pre.id # <<>>
       /\ \A f \in Fields : IsCount(hist[p].pre[f]))
      => /\ procs[p].result.status = "ok"
         /\ Carries(hist[p].pre, procs[p].result.value)
         /\ procs[p].result.value.safeId = procs[p].safeId

\* C14: saving a record with counters that are integers >= 0 and then
\* loading the same id, with no other operation on it between, in either
\* backend, yields the id, safeId, counters and resetAt of the normalized
\* record that was saved.
C14_SaveLoadRoundTrip == SaveStores /\ LoadYieldsStored

\* On the durable backend, a getUsage has loaded a record with a resetAt,
\* which the resetUsage before it saved.
C14_Witness ==
  \E p \in Procs :
    /\ calls = 2
    /\ scope.slots = 1
    /\ Ended1(p) /\ procs[p].op = "get" /\ Quiet(p)
    /\ ~hist[p].mem
    /\ hist[p].pre.kind = "obj"
    /\ hist[p].pre.resetAt # Null
    /\ procs[p].result.value.resetAt = hist[p].pre.resetAt

\* The call of request p is a getUsage of an id with a non-empty safe id
\* for which the active backend held no record when the call started.
GetOfMissing(p) ==
  /\ Ended1(p)
  /\ procs[p].op = "get"
  /\ procs[p].safeId # <<>>
  /\ hist[p].pre.kind = "none"

\* C15: a getUsage of an id with no stored record does not fail for the
\* record being missing; whenever the backend answers its requests it
\* returns a record with all counters 0, and the record exists in the
\* backend afterwards: in durable mode the not-found read is followed by a
\* write of the zeroed record.
C15_GetCreates ==
  \A p \in Procs :
    GetOfMissing(p)
      => /\ procs[p].result.status \in {"ok", "AccessDenied", "StorageError"}
         /\ procs[p].result.status # "ok" => hist[p].fault
         /\ Quiet(p)
              => /\ procs[p].result.status = "ok"
                 /\ \A f \in Fields : procs[p].result.value[f] = Num(0)
                 /\ hist[p].wrote
                 /\ ~hist[p].mem => hist[p].reqS3
                 /\ hist[p].post.kind = "obj"
                 /\ \A f \in Fields : hist[p].post[f] = Num(0)

\* In durable mode a getUsage of a user without a record has returned, and
\* the bucket holds the zeroed record.
C15_Witness ==
  \E p \in Procs :
    /\ GetOfMissing(p) /\ Quiet(p)
    /\ ~hist[p].mem
    /\ procs[p].result.status = "ok"
    /\ s3[buildKey(procs[p].safeId)].kind = "obj"
    /\ s3[buildKey(procs[p].safeId)].listeningUsed = Num(0)

\* The raw id and the sanitized id of the token signToken has issued.
RawSub == auth.signed.userId
SafeSub == auth.signed.payload.safeSub

\* C16: the sanitized form of every raw id consists of characters of
\* [A-Za-z0-9._-] only: it is the trimmed raw id with every other character,
\* '/' included, replaced by '_'; and sanitizing it again changes nothing.
C16_SanitizeIsSafeAndIdempotent ==
  auth.signed.status = "ok" =>
    /\ SafeSub = sanitizeUserId(RawSub)
    /\ \A i \in 1..Len(SafeSub) : SafeSub[i] \in Allowed
    /\ Len(SafeSub) = Len(TrimEnd(TrimStart(RawSub)))
    /\ \A i \in 1..Len(SafeSub) :
         LET c == TrimEnd(TrimStart(RawSub))[i]
         IN  SafeSub[i] = IF c \in Allowed THEN c ELSE "_"
    /\ sanitizeUserId(SafeSub) = SafeSub

\* A token was issued for an id with a leading blank and a '/': the
\* sanitizer has trimmed and has replaced.
C16_Witness ==
  /\ auth.signed.status = "ok"
  /\ RawSub = <<" ", "/", "a">>
  /\ SafeSub = <<"_", "a">>

\* The call of request p is an accounting operation on an id whose
\* sanitized form is empty.
EmptyIdCall(p) ==
  /\ Ended1(p)
  /\ procs[p].op \in {"get", "inc", "reset", "delete"}
  /\ procs[p].safeId = <<>>

\* C17: getUsage, incrementUsage, resetUsage and deleteUsage alike, called
\* with an id whose sanitized form is empty, reject with an identity error
\* and touch no backend: no durable request, no write.
C17_EmptyIdRejected ==
  \A p \in Procs :
    EmptyIdCall(p)
      => /\ procs[p].result.status = "IdentityError"
         /\ ~hist[p].reqS3
         /\ ~hist[p].wrote

\* The call of request p is an incrementUsage of a category that is none
\* of listening, translation and pronunciation.
UnsupportedIncrement(p) ==
  /\ Ended1(p)
  /\ procs[p].op = "inc"
  /\ procs[p].type \notin Types

\* C18: an incrementUsage with a category outside {listening, translation,
\* pronunciation} fails before any backend access: it issues no durable
\* request, creates and writes no record, and what is stored for the user
\* is what it was.  The error is the unsupported-category error for every
\* id that sanitizes to something (an empty id is reported first).
C18_UnsupportedCategory ==
  \A p \in Procs :
    UnsupportedIncrement(p)
      => /\ procs[p].result.status =
              IF procs[p].safeId = <<>> THEN "IdentityError"
              ELSE "UnsupportedType"
         /\ procs[p].result.value = NoEntry
         /\ ~hist[p].reqS3
         /\ ~hist[p].wrote
         /\ hist[p].post = hist[p].pre

\* An increment of an unsupported category has failed for a user of whom
\* the durable backend holds a record.
C18_Witness ==
  \E p \in Procs :
    /\ UnsupportedIncrement(p)
    /\ procs[p].safeId # <<>>
    /\ procs[p].result.status = "UnsupportedType"
    /\ ~useMemoryStore
    /\ hist[p].pre.kind = "obj"

\* verifyToken has been called, with a secret configured, on the token
\* signToken returned, unchanged, and that token was asked for with a
\* positive number of seconds.
VerifiedIssued ==
  /\ auth.signed.status = "ok"
  /\ auth.verdict.status # "none"
  /\ auth.verdict.token = auth.signed.token
  /\ auth.signed.ttl.k = "num"
  /\ auth.signed.ttl.twice > 0

\* C19: for every user id and positive ttl, verifying the token that
\* signToken(id, ttl) returned, at a time before the expiry in its payload,
\* succeeds and returns a payload with sub = id, safeSub = sanitize(id) and
\* exp = iat + ttl, iat being the second of the issuance.
C19_TokenRoundTrip ==
  (VerifiedIssued /\ auth.verdict.at < auth.signed.payload.exp.twice)
    => /\ auth.verdict.status = "ok"
       /\ auth.verdict.payload.sub = auth.signed.userId
       /\ auth.verdict.payload.safeSub = sanitizeUserId(auth.signed.userId)
       /\ auth.verdict.payload.iat = Seconds(auth.signed.at)
       /\ auth.verdict.payload.exp.k = "num"
       /\ auth.verdict.payload.exp.twice =
            2 * auth.verdict.payload.iat + auth.signed.ttl.twice

\* A token asked for with a ttl of one second, for an id the sanitizer
\* changes, has been verified half a second after it was issued.
C19_Witness ==
  /\ VerifiedIssued
  /\ auth.signed.ttl = Num(1)
  /\ auth.signed.userId = <<" ", "/", "a">>
  /\ auth.verdict.at = auth.signed.at + 1
  /\ auth.verdict.at < auth.signed.payload.exp.twice
  /\ auth.verdict.status = "ok"

\* verifyToken has answered for a correctly signed token whose payload
\* carries an expiry.
VerifiedSigned ==
  /\ auth.verdict.status \in {"ok", "TokenExpired"}
  /\ base64urlDecode(auth.verdict.token.payload).exp.k = "num"

\* C20: verifyToken rejects a correctly signed token with the expired-token
\* error whenever the time of the call is at or past the expiry of its
\* payload (now >= exp), and accepts it only while now < exp.
C20_ExpiredAtOrPast ==
  VerifiedSigned
    => (auth.verdict.status = "TokenExpired"
          <=> auth.verdict.at
                >= base64urlDecode(auth.verdict.token.payload).exp.twice)

\* verifyToken has answered, with a secret configured, for a token of three
\* segments.
VerifiedJwt ==
  /\ auth.secret # ""
  /\ auth.verdict.status # "none"
  /\ auth.verdict.token.kind = "jwt"

\* C21: verifyToken accepts a token only if its third segment is the HMAC
\* that the secret of the server gives for its own header.payload string;
\* a token whose signature, header or payload segment differs from that of
\* the token that was issued is rejected with the invalid-signature error,
\* and no payload is returned for it.
C21_SignatureGuardsPayload ==
  VerifiedJwt =>
    LET token == auth.verdict.token
        issued == auth.signed.token
    IN  /\ auth.verdict.status = "ok"
             => token.sig = createHmac(auth.secret, <<token.header, token.payload>>)
        /\ (\/ token.sig # issued.sig
            \/ token.header # issued.header
            \/ token.payload # issued.payload)
             => /\ auth.verdict.status = "InvalidSignature"
                /\ auth.verdict.payload = NoPayload

\* A token whose payload was given a later expiry, under the signature of
\* the issued token, has been presented after the issued token expired,
\* and was rejected for its signature.
C21_Witness ==
  /\ VerifiedJwt
  /\ auth.verdict.token.payload # auth.signed.token.payload
  /\ auth.verdict.token.sig = auth.signed.token.sig
  /\ auth.verdict.at > auth.signed.payload.exp.twice
  /\ auth.signed.payload.exp.k = "num"
  /\ auth.verdict.status = "InvalidSignature"

\* The token the server issued to sub, correctly signed and not expired.
GoodToken(sub) == Issue(auth.secret, sub, Num(1), Epoch)

\* The handler of the endpoint has run on a request with this token.
Handled(endpoint, token) ==
  /\ web.req.endpoint = endpoint
  /\ web.req.token = token
  /\ web.stage = "replied" \/ procs[1].pc # "idle"

TokenAccepted ==
  verifyTokenAt(auth.secret, web.req.token, auth.clock).status = "ok"

\* The subject of the token of the request is in the admin set.
SubjectIsAdmin ==
  sanitizeUserId(base64urlDecode(web.req.token.payload).sub)
    \in parseAdmins(web.admins)

\* The admin endpoint has a call of the store in flight or ended.
AdminCalls ==
  web.req.endpoint = "admin" /\ web.stage = "arrived" /\ procs[1].pc # "idle"

\* The admin endpoint has answered.
AdminReplied == web.req.endpoint = "admin" /\ web.stage = "replied"

\* C23, the states: the admin endpoint calls listUsage, resetUsage,
\* deleteUsage or getUsage only for a request whose token is accepted and
\* whose subject is in the admin set; it answers 401 Unauthorized when the
\* token is missing, malformed, forged or expired, and 403 Forbidden when
\* the token is accepted and its subject is no admin.
C23_Gate ==
  /\ AdminCalls => (TokenAccepted /\ SubjectIsAdmin)
  /\ AdminReplied =>
       /\ ~TokenAccepted => web.res.status = 401
       /\ (TokenAccepted /\ ~SubjectIsAdmin) => web.res.status = 403
       /\ web.res.status \in {401, 403} => ~(TokenAccepted /\ SubjectIsAdmin)

\* C23, the steps: the step in which the admin endpoint answers 401 or 403
\* is the step of its handler on the request that arrived; it starts no
\* call of the store and changes no record of either backend.
C23_RefusalStep ==
  (/\ web'.req.endpoint = "admin"
   /\ web'.stage = "replied"
   /\ web.stage # "replied"
   /\ web'.res.status \in {401, 403})
    => /\ web.stage = "arrived"
       /\ procs[1].pc = "idle"
       /\ UNCHANGED <<procs, calls, memoryStore, s3, useMemoryStore>>

\* C23: the admin endpoint performs an accounting operation only for a
\* request with a valid, unexpired token of an admin; every other request is
\* refused with 401 or 403 without any accounting operation and without any
\* change of a record.
C23_AdminOnly == []C23_Gate /\ [][C23_RefusalStep]_vars

\* The admin endpoint has deleted the record of a user for the admin, and
\* the bucket, which held it, holds it no more.
C23_Witness ==
  /\ AdminReplied
  /\ web.req.token = GoodToken(AdminId)
  /\ web.req.action = "delete"
  /\ web.req.userId = <<" ", "a">>
  /\ web.res.status = 200
  /\ ~useMemoryStore
  /\ s3[buildKey(<<"a">>)].kind = "none"
  /\ calls = 1

\* The handler of either endpoint has answered a request whose token
\* verifyToken rejects, or that carries none.
RefusedToken ==
  /\ web.stage = "replied"
  /\ web.req.endpoint \in {"usage", "admin"}
  /\ ~TokenAccepted

\* C24: the response to a request whose token fails verification is the
\* same, status 401 and body { error: 'Unauthorized' } and nothing else,
\* whether the token is expired, forged, malformed or missing, whatever
\* the endpoint, the method and the body of the request.
C24_OneRefusal == RefusedToken => web.res = Failure(401, "Unauthorized")

\* The usage endpoint has refused a token that was issued by the server and
\* has expired.
C24_Witness ==
  /\ RefusedToken
  /\ web.req.endpoint = "usage"
  /\ web.req.method = "POST"
  /\ verifyTokenAt(auth.secret, web.req.token, auth.clock).status
       = "TokenExpired"
  /\ web.res.status = 401

\* The usage endpoint has answered a POST that hit the cap.
OverLimit ==
  /\ web.stage = "replied"
  /\ web.req.endpoint = "usage"
  /\ web.res.status = 429

\* C25: every over-limit response of the usage endpoint carries the usage
\* snapshot of the user (usage, limits, remaining) and limitExceeded
\* { type, limit, used }, and the counter of that type in the snapshot
\* equals limitExceeded.used.
C25_SnapshotWithError ==
  OverLimit =>
    /\ web.res.snapshot
    /\ web.res.exceeded.type \in Types
    /\ web.res.exceeded.limit = Cap(web.res.exceeded.type)
    /\ web.res.item[field(web.res.exceeded.type)]
         = Num(web.res.exceeded.used)

\* The request at the admin endpoint is a POST with the token of an admin.
AdminPost ==
  /\ web.req.endpoint = "admin"
  /\ web.req.method = "POST"
  /\ web.stage \in {"arrived", "replied"}
  /\ TokenAccepted
  /\ SubjectIsAdmin

\* The body of the POST names no action, or one the endpoint does not know,
\* or no user id that survives sanitizing.
BadAdminBody ==
  \/ web.req.action \notin {"reset", "delete", "get"}
  \/ sanitizeUserId(web.req.userId) = <<>>

\* C26: an admin POST whose body has no action, an unsupported action or no
\* userId starts no call of the store and is answered 400; an admin POST
\* for which reset, delete or get was called names that action in its body.
C26_BodyChecked ==
  AdminPost =>
    /\ BadAdminBody =>
         /\ procs[1].pc = "idle"
         /\ calls = 0
         /\ web.stage = "replied" => web.res.status = 400
    /\ procs[1].pc # "idle" =>
         /\ web.req.action \in {"reset", "delete", "get"}
         /\ procs[1].op = web.req.action

\* The category a run under a configured limit increments, and what the
\* environment holds for its per-section limit and for the section count.
Configured == CHOOSE t \in Types : t \in scope.types
ConfiguredLimit == env.sectionLimit[Configured]
ConfiguredCount == env.sectionCount

\* The section count in effect: the configured number floored, 1 when that
\* is 0, and the default when the environment holds no positive number.
CountInEffect ==
  IF ConfiguredCount.k = "num" /\ ConfiguredCount.twice > 0
  THEN Max(1, ConfiguredCount.twice \div 2)
  ELSE DefaultSectionCount

\* The per-section limit in effect: the configured number floored when it is
\* zero or more, none for 'unlimited', and the default when the environment
\* holds nothing, a negative number or no finite number.
LimitInEffect ==
  IF ConfiguredLimit.k = "num" /\ ConfiguredLimit.twice >= 0
  THEN ConfiguredLimit.twice \div 2
  ELSE IF ConfiguredLimit.k = "unlimited" THEN 0
  ELSE DefaultSectionLimit

\* The k-th increment by 1 of a fresh user has ended: accepted with counter
\* k when the cap is none or k is within it, else rejected with the cap as
\* limit and as used.
RunUnder(cap) ==
  (Ended1(1) /\ procs[1].op = "inc") =>
    IF cap = Infinity \/ calls <= cap
    THEN /\ procs[1].result.status = "ok"
         /\ procs[1].result.value[field(Configured)] = Num(calls)
    ELSE /\ procs[1].result.status = "QuotaExceeded"
         /\ procs[1].result.limit = cap
         /\ procs[1].result.used = cap

\* C27 as stated: the overall cap is perSectionCap x sectionCount when the
\* configured per-section cap is a positive number, and the category is
\* unlimited, no increment of it rejected, when the per-section cap is
\* absent from the configuration or zero.
C27_AbsentOrZeroUnlimited ==
  /\ (ConfiguredLimit.k = "num" /\ ConfiguredLimit.twice > 0)
       => /\ Cap(Configured) # Infinity
          /\ 2 * Cap(Configured) = ConfiguredLimit.twice * CountInEffect
  /\ (ConfiguredLimit.k = "absent" \/ ConfiguredLimit = Num(0))
       => /\ Cap(Configured) = Infinity
          /\ RunUnder(Infinity)

\* C27: the overall cap of a category is floor(perSectionCap) x sectionCount
\* when the configured per-section cap is a finite number of 1 or more; the
\* category is unlimited, no increment of it rejected, when the configured
\* per-section cap is 0, a fraction below 1 or 'unlimited'; and a
\* per-section cap that is absent, negative or no finite number counts
\* as 10.  sectionCount is the configured count floored (1 when that is 0),
\* and 17 when the count is absent, not positive or no finite number.  A
\* fresh user's increments by 1 are accepted up to the cap and rejected
\* from then on.
C27_CapFromConfig ==
  LET cap == IF LimitInEffect = 0 THEN Infinity
             ELSE LimitInEffect * CountInEffect
  IN  /\ Cap(Configured) = cap
      /\ RunUnder(cap)

\* With no per-section limit in the environment and section count 1, the
\* 11th increment of the run has been rejected at the cap of 10, on the
\* durable backend.
C27_Witness ==
  /\ ConfiguredLimit = Absent
  /\ ConfiguredCount = Num(1)
  /\ calls = 11
  /\ ~useMemoryStore
  /\ Ended1(1)
  /\ procs[1].result.status = "QuotaExceeded"
  /\ procs[1].result.limit = 10
  /\ s3[buildKey(<<"a">>)][field(Configured)] = Num(10)

\* The limit of a category in a call of computeRemaining, and the count the
\* record of the call holds for it: the counter when it is a number of 0 or
\* more, floored, and 0 when it is not.
LimitOf(t) == resolveLimitForTypeOf(t, calc.limits, env)
UsedOf(t) ==
  LET c == calc.entry[field(t)]
  IN  IF c.k = "num" /\ c.twice >= 0 THEN c.twice \div 2 ELSE 0

\* C28: computeRemaining(record, limits) returns for each of the three
\* categories unlimited when the limit of the category is infinite, and
\* max(0, limit - used) when it is finite: limit - used when used is below
\* the limit and 0 when used has reached or passed it; it is never negative.
C28_RemainingNeverNegative ==
  calc.done =>
    /\ DOMAIN calc.remaining = Types
    /\ \A t \in Types :
         IF LimitOf(t) = Infinity
         THEN calc.remaining[t] = Infinity
         ELSE /\ calc.remaining[t] >= 0
              /\ calc.remaining[t] <= LimitOf(t)
              /\ UsedOf(t) < LimitOf(t)
                   => calc.remaining[t] + UsedOf(t) = LimitOf(t)
              /\ UsedOf(t) >= LimitOf(t) => calc.remaining[t] = 0

\* computeRemaining has returned 0 for listening on a record that holds 3
\* under the default cap of 2, and unlimited for pronunciation.
C28_Witness ==
  /\ calc.done
  /\ calc.limits = NoLimits
  /\ calc.entry.listeningUsed = Num(3)
  /\ Cap("listening") = 2
  /\ calc.remaining["listening"] = 0
  /\ Cap("pronunciation") = Infinity
  /\ calc.remaining["pronunciation"] = Infinity

\* The amount the claim has incrementUsage apply: the amount floored when
\* one is supplied and is a finite number above 0, and 1 when none is
\* supplied or it is 0, negative, no number or infinite.
Applied(amount) ==
  IF amount.k = "num" /\ amount.twice > 0 THEN amount.twice \div 2 ELSE 1

\* C29, the steps: a call incrementUsage(userId, type, amount) takes
\* Applied(amount) as its increment.
C29_Taken ==
  \A p \in Procs, userId \in scope.ids, type \in scope.types,
     amount \in scope.amounts :
    incrementUsage(p, userId, type, amount)
      => procs'[p].incrementBy = Applied(amount)

\* C29, the states: an incrementUsage that succeeded beside no other call
\* and without a failure of the backend returned and stored the counter it
\* found plus its increment.
C29_Added ==
  \A p \in Procs :
    (Ended1(p) /\ procs[p].op = "inc" /\ procs[p].result.status = "ok"
       /\ Quiet(p))
      => /\ procs[p].result.value[field(procs[p].type)]
              = Num(Used(hist[p].pre, procs[p].type) + procs[p].incrementBy)
         /\ Used(hist[p].post, procs[p].type)
              = Used(hist[p].pre, procs[p].type) + procs[p].incrementBy

\* C29: the amount applied by incrementUsage is floor(amount) when amount
\* is supplied and is a positive finite number, and 1 in every other case
\* (absent, zero, negative, non-numeric, infinite).
C29_AmountApplied == []C29_Added /\ [][C29_Taken]_vars

\* An incrementUsage with amount 0.5 has succeeded on the durable backend:
\* its increment is floor(0.5) = 0 and the stored counter is the 1 it found.
C29_Witness ==
  \E p \in Procs :
    /\ Ended1(p)
    /\ procs[p].op = "inc"
    /\ procs[p].result.status = "ok"
    /\ Quiet(p)
    /\ ~useMemoryStore
    /\ procs[p].incrementBy = 0
    /\ procs[p].type = "listening"
    /\ Used(hist[p].pre, "listening") = 1
    /\ Used(hist[p].post, "listening") = 1

\* Two incrementUsage calls for one user and one category have both
\* succeeded on the durable backend, each backend request answered
\* normally.
BothSucceeded ==
  /\ scope = Concurrent
  /\ ~useMemoryStore
  /\ \A p \in Procs :
       /\ Ended1(p)
       /\ procs[p].op = "inc"
       /\ procs[p].result.status = "ok"
       /\ ~hist[p].fault
       /\ ~hist[p].mem

\* The counter a call returned, the counter the bucket holds now, and the
\* counter the bucket held before the earlier of the two calls started.
Counted(p) == toCount(procs[p].result.value.listeningUsed)
Persisted == Used(s3[buildKey(<<"a">>)], "listening")
Before == Min(Used(hist[1].pre, "listening"), Used(hist[2].pre, "listening"))

\* C30: incrementUsage reads, adds and writes with no lock and no condition
\* on the write.  When two calls for one user and category overlap on the
\* durable backend and both succeed, the persisted counter is the one a
\* call wrote; when both read before either wrote, both return the same
\* counter and the persisted counter is one increment above the counter
\* before the calls, not two: one increment is lost.
C30_LostUpdate ==
  BothSucceeded =>
    /\ Persisted \in {Counted(1), Counted(2)}
    /\ \A p \in Procs : Counted(p) \in {Before + 1, Before + 2}
    /\ IF Counted(1) = Counted(2)
       THEN Persisted = Before + 1
       ELSE Persisted = Before + 2

\* Both calls read the stored counter 1 before either wrote; both have
\* succeeded and returned 2, and the bucket holds 2.
C30_Witness ==
  /\ BothSucceeded
  /\ hist[1].overlap /\ hist[2].overlap
  /\ Used(hist[1].pre, "listening") = 1
  /\ Used(hist[2].pre, "listening") = 1
  /\ Counted(1) = 2
  /\ Counted(2) = 2
  /\ s3[buildKey(<<"a">>)].listeningUsed = Num(2)

\* A stored counter value is no number above the cap.
Within(value, cap) == value.k = "num" => value.twice <= 2 * cap

\* C31: from stored records whose counters are within their caps, under
\* every interleaving of getUsage, incrementUsage, resetUsage and deleteUsage
\* calls and across a failover of the backend, no counter the bucket or the
\* map holds exceeds the finite overall cap of its category.
C31_StoredWithinCap ==
  \A x \in SafeIds, t \in Types :
    Cap(t) # Infinity =>
      /\ s3[buildKey(x)].kind = "obj" => Within(s3[buildKey(x)][field(t)], Cap(t))
      /\ memoryStore[x] # NoEntry => Within(memoryStore[x][field(t)], Cap(t))

\* Two overlapping increments started on the durable backend at counter 1;
\* a write of theirs was denied, the process went over to the map, and the
\* map holds the counter at the cap of 2.
C31_Witness ==
  /\ scope = Concurrent
  /\ useMemoryStore
  /\ \A p \in Procs : Ended1(p) /\ procs[p].op = "inc" /\ ~hist[p].mem
  /\ \E p \in Procs : hist[p].denied /\ hist[p].overlap
  /\ memoryStore[<<"a">>].listeningUsed = Num(2)
  /\ Cap("listening") = 2

\* The call of request p is an incrementUsage that succeeded, beside no
\* other call on its user and with every backend request answered.
QuietIncrement(p) ==
  ValidIncrement(p) /\ Quiet(p) /\ procs[p].result.status = "ok"

\* C32, the record of the user: a successful incrementUsage(id, cat, n)
\* leaves the other two counters, the id and the resetAt of the record keyed
\* sanitize(id) as they were (as getUsage reads them: a record the backend
\* did not hold reads as a fresh one), in what it returns and in what the
\* backend holds; the record it returns carries safeId = sanitize(id).
C32_SameRecord ==
  \A p \in Procs :
    QuietIncrement(p) =>
      LET P == procs[p]
          pre == hist[p].pre
          post == hist[p].post
          id == IF pre.kind = "obj" /\ pre.id # <<>> THEN pre.id ELSE P.userId
          resetAt == IF pre.kind = "obj" THEN pre.resetAt ELSE Null
      IN  /\ \A t \in Types \ {P.type} :
               /\ P.result.value[field(t)] = Num(Used(pre, t))
               /\ post[field(t)] = Num(Used(pre, t))
          /\ P.result.value.id = id
          /\ post.id = id
          /\ P.result.value.safeId = sanitizeUserId(P.userId)
          /\ P.result.value.resetAt = resetAt
          /\ post.resetAt = resetAt

\* C32, the other records: no step of an incrementUsage changes what the
\* bucket or the map holds under another safe id.
C32_OtherRecords ==
  \A p \in Procs :
    ((procs[p].op = "inc" \/ procs'[p].op = "inc") /\ procs'[p] # procs[p])
      => \A y \in SafeIds \ {procs[p].safeId, procs'[p].safeId} :
           /\ s3'[buildKey(y)] = s3[buildKey(y)]
           /\ memoryStore'[y] = memoryStore[y]

\* C32: a successful incrementUsage(id, cat, n) changes only the cat counter
\* and updatedAt of the record keyed sanitize(id); the other two counters,
\* id, safeId and resetAt of that record and every record of every other
\* sanitized id are left unchanged.
C32_Frame == []C32_SameRecord /\ [][C32_OtherRecords]_vars

\* An increment of listening has succeeded on a saved record of the map
\* that holds translation 1 and a resetAt, while the map holds a record of
\* another user.
C32_Witness ==
  \E p \in Procs :
    /\ QuietIncrement(p)
    /\ hist[p].mem
    /\ procs[p].type = "pronunciation"
    /\ hist[p].pre.translationUsed = Num(1)
    /\ hist[p].pre.resetAt = 0
    /\ hist[p].post.translationUsed = Num(1)
    /\ hist[p].post.resetAt = 0
    /\ \E y \in SafeIds \ {procs[p].safeId} : memoryStore[y] # NoEntry

\* A resetUsage and an incrementUsage of one user overlapped, the increment
\* having begun before the reset returned, and both have ended, the reset
\* with success, every backend request answered normally; q is the
\* increment.
ResetBesideIncrement(p, q) ==
  /\ p # q
  /\ Ended1(p) /\ procs[p].op = "reset" /\ procs[p].result.status = "ok"
  /\ Ended1(q) /\ procs[q].op = "inc"
  /\ procs[p].safeId = procs[q].safeId
  /\ hist[p].overlap /\ hist[q].overlap
  /\ ~hist[p].fault /\ ~hist[q].fault

\* C33: once resetUsage(id) has returned, and no incrementUsage of id has
\* started since, the counters the active backend holds for id are those of
\* the reset: 0, or for the category of an increment that overlapped the
\* reset at most that one increment; an increment that began before the
\* reset and ended after it has not written back the counts from before
\* the reset.
C33_ResetSticks ==
  \A p, q \in Procs :
    ResetBesideIncrement(p, q) =>
      LET held == Stored(useMemoryStore, memoryStore, s3, procs[p].safeId)
      IN  \A t \in Types :
            Used(held, t) <= IF t = procs[q].type THEN procs[q].incrementBy
                             ELSE 0

\* In this step the PutObject of the saveEntry of request p, an
\* incrementUsage or a resetUsage, is answered AccessDenied.
SaveDenied(p) ==
  /\ procs[p].pc = "write"
  /\ procs[p].op \in {"inc", "reset"}
  /\ ~hist[p].denied
  /\ hist'[p].denied

\* C34, the step: when the PutObject of incrementUsage or resetUsage is
\* answered AccessDenied the call returns, without an error, the updated
\* record (for an increment beside no other call: the stored counter plus
\* the increment; for a reset: zeros), and the map holds the counters, the
\* id and the resetAt of that record under the safe id.
C34_SavedToMap ==
  \A p \in Procs :
    SaveDenied(p) =>
      LET P == procs'[p]
          r == P.result.value
          held == memoryStore'[P.safeId]
      IN  /\ useMemoryStore'
          /\ P.pc = "done"
          /\ P.result.status = "ok"
          /\ held # NoEntry
          /\ held.safeId = P.safeId
          /\ \A f \in Fields : held[f] = r[f]
          /\ held.id = r.id /\ held.resetAt = r.resetAt
          /\ (P.op = "inc" /\ ~hist'[p].overlap)
               => r[field(P.type)]
                    = Num(Used(hist[p].pre, P.type) + P.incrementBy)
          /\ P.op = "reset" => \A f \in Fields : r[f] = Num(0)

\* Request q is a getUsage that began after the call of request p, which
\* started on the durable backend and left the process on the map, had
\* ended; both are calls on one user.
GetAfterFailover(p, q) ==
  /\ p # q
  /\ Ended1(p) /\ procs[p].op \in {"inc", "reset"}
  /\ procs[p].result.status = "ok"
  /\ ~hist[p].mem /\ hist[p].denied
  /\ Ended1(q) /\ procs[q].op = "get"
  /\ procs[q].safeId = procs[p].safeId
  /\ hist[q].mem /\ ~hist[q].overlap

\* C34, the states: the getUsage that follows such a call returns the
\* counters the call returned.
C34_NextGetAgrees ==
  \A p, q \in Procs :
    GetAfterFailover(p, q) =>
      /\ procs[q].result.status = "ok"
      /\ \A f \in Fields :
           procs[q].result.value[f] = procs[p].result.value[f]

\* C34: when the durable write of incrementUsage or resetUsage is denied
\* the update is not lost: the updated record is stored in the map under
\* the sanitized id, the call returns it without error, and the next
\* getUsage of the id returns the same counters.
C34_DeniedWriteKept == []C34_NextGetAgrees /\ [][C34_SavedToMap]_vars

\* An increment read 1 from the bucket, its PutObject was denied, and it
\* returned 2; the bucket still holds 1, the map holds 2, and the getUsage
\* after it returned 2.
C34_Witness ==
  \E p, q \in Procs :
    /\ GetAfterFailover(p, q)
    /\ procs[p].op = "inc"
    /\ Used(hist[p].pre, "listening") = 1
    /\ procs[p].result.value.listeningUsed = Num(2)
    /\ s3[buildKey(procs[p].safeId)].listeningUsed = Num(1)
    /\ memoryStore[procs[p].safeId].listeningUsed = Num(2)
    /\ procs[q].result.value.listeningUsed = Num(2)

\* C35, a step: when the PutObject of loadEntry stores a fresh record, the
\* bucket held no object under the key and the GetObject before it was not
\* answered AccessDenied.
C35_SeedStep ==
  \A p \in Procs :
    (/\ procs[p].pc = "seed"
     /\ s3'[buildKey(procs[p].safeId)] # s3[buildKey(procs[p].safeId)])
      => /\ s3[buildKey(procs[p].safeId)].kind = "none"
         /\ ~hist[p].denied

\* C35: loading a record never overwrites an existing durable object:
\* loadEntry writes a zeroed record to the bucket only when the read reported
\* that the object does not exist, and issues no durable write after a read
\* that was answered AccessDenied.
C35_SeedOnlyWhenMissing == [][C35_SeedStep]_vars

\* C36: every incrementUsage that succeeds, beside no other call on its
\* user and with every backend request answered, raises the counter of its
\* category by at least 1, whatever amount was supplied, a positive amount
\* below 1 included.
C36_RaisesByOne ==
  \A p \in Procs :
    QuietIncrement(p) =>
      /\ Floor(procs[p].result.value[field(procs[p].type)])
           >= Used(hist[p].pre, procs[p].type) + 1
      /\ Used(hist[p].post, procs[p].type)
           >= Used(hist[p].pre, procs[p].type) + 1

\* The auth endpoint has answered a POST with a token.
TokenIssued ==
  /\ web.stage = "replied"
  /\ web.req.endpoint = "auth"
  /\ web.req.method = "POST"
  /\ web.res.status = 200
  /\ web.res.token # NoToken

\* C37: the auth endpoint issues a token for userId only after the password
\* of the request has been verified against the stored credential of that
\* userId: every request that got a token carried a password, the
\* configuration holds a credential for the sanitized userId, and the
\* password matches it.
C37_PasswordChecked ==
  TokenIssued =>
    /\ web.req.password # ""
    /\ \E c \in web.users :
         /\ c.safeId = sanitizeUserId(web.req.userId)
         /\ c.of = web.req.password

\* The user id of the request as the auth handler reads it.
NormalizedUserId == TrimEnd(TrimStart(web.req.userId))

\* The auth endpoint has answered a POST.
AuthPosted ==
  /\ web.stage = "replied"
  /\ web.req.endpoint = "auth"
  /\ web.req.method = "POST"

\* C37, as the code has it: a token is issued for the trimmed userId, and
\* for a userId that does not begin with 'acg2_' only when the request
\* carried a password that matches the stored credential of the sanitized
\* userId; a userId that begins with 'acg2_' gets its token whatever the
\* password and with no credential stored.
C37_PasswordCheckedUnlessOptional ==
  AuthPosted =>
    /\ TokenIssued =>
         /\ web.res.user.id = NormalizedUserId
         /\ web.res.token =
              Issue(auth.secret, NormalizedUserId, Num(DefaultTtl), auth.clock)
         /\ \/ isPasswordOptionalUser(NormalizedUserId)
            \/ /\ web.req.password # ""
               /\ \E c \in web.users :
                    /\ c.safeId = sanitizeUserId(NormalizedUserId)
                    /\ c.of = web.req.password
    /\ isPasswordOptionalUser(NormalizedUserId) => TokenIssued

\* A token issued on a verified password, and wrong passwords were possible.
C37_Witness ==
  /\ TokenIssued
  /\ ~isPasswordOptionalUser(NormalizedUserId)
  /\ web.req.userId # NormalizedUserId
  /\ web.req.password = "q"

\* The subject of the token of the request.
Subject == base64urlDecode(web.req.token.payload).sub

\* The admin set given in configuration: the sanitized entries of
\* ADMIN_USERS and nothing else.
ConfiguredAdmins == parseAdminsNoDefault(web.admins)

\* C38: isAdmin(userId) is true only if sanitize(userId) is a member of the
\* admin set given in configuration; when no admin set is configured the
\* set is empty and isAdmin is false for every user, so every request to
\* the admin endpoint with an accepted token is answered 403 Forbidden.
C38_EmptyWhenUnconfigured ==
  (AdminReplied /\ TokenAccepted) =>
    /\ isAdminUser(web.admins, Subject)
         => sanitizeUserId(Subject) \in ConfiguredAdmins
    /\ web.admins = <<>> =>
         /\ ~isAdminUser(web.admins, Subject)
         /\ web.res.status = 403

\* The usage endpoint is serving a request: it has arrived and is not yet
\* answered.
UsageServing ==
  web.req.endpoint = "usage" /\ web.stage \in {"arrived", "caught"}

\* The sanitized ids of the users other than the subject of the token.
OtherUsers == SafeIds \ {sanitizeUserId(Subject)}

\* C39, the states: every call of the store the usage endpoint makes is a
\* call for a request whose token is accepted, on the record keyed by the
\* sanitized subject of that token, whatever the body names.
C39_KeyFromToken ==
  (UsageServing /\ procs[1].pc # "idle") =>
    /\ TokenAccepted
    /\ procs[1].op \in {"get", "inc"}
    /\ procs[1].safeId = sanitizeUserId(Subject)

\* C39, the steps: no step of a request to the usage endpoint changes the
\* record of another sanitized id in the bucket or in the map, so that,
\* the backend mode being the same, a GET of that other user returns after
\* the step what it returned before.
C39_OthersUntouched ==
  UsageServing =>
    \A y \in OtherUsers :
      /\ s3'[buildKey(y)] = s3[buildKey(y)]
      /\ memoryStore'[y] = memoryStore[y]
      /\ useMemoryStore' = useMemoryStore =>
           Stored(useMemoryStore', memoryStore', s3', y)
             = Stored(useMemoryStore, memoryStore, s3, y)

====
